---- MODULE Spec2Model ----
(***************************************************************************)
(* CrabberBot: the per-chat concurrency limiter (concurrency.rs), the URL  *)
(* message handler (main.rs, handle_url) and the download pipeline         *)
(* (handler.rs, process_download_request) with the collaborators it calls  *)
(* (downloader.rs, telegram_api.rs, storage.rs).                           *)
(*                                                                         *)
(* A task is one handler slot of the dispatcher: it handles one URL        *)
(* message at a time and takes the next one when handle_url has returned.  *)
(* A task is suspended at an awaited call; one step of a task is the       *)
(* arrival of that call's result and the code that runs up to the next     *)
(* awaited call, so tasks interleave exactly at the suspension points.     *)
(***************************************************************************)
EXTENDS Integers, Sequences, FiniteSets, TLC

\* ---------------------------------------------------------------- bounds
NumTasks == 2
NumChats == 2
NumClients == 2
MaxCalls == 2
MaxQueryLen == 5
MaxUrlChars == 1000
MaxEntries == 12
MaxTextLen == 3

Tasks == 1..NumTasks
Chats == 1..NumChats
\* The runs that are inside a storage call, and how many calls each makes.
Clients == 1..NumClients

\* Option<T>: a string-valued option is the string or None; every other option
\* is a sequence, <<>> for None and <<x>> for Some(x).
None == "None"
Nothing == <<>>
Some(x) == <<x>>
IsSome(o) == o # <<>>
Unwrap(o) == o[1]

\* ------------------------------------------------------------- variables
VARIABLES
    processing_users,   \* ConcurrencyLimiter.processing_users : DashSet<ChatId>
    pc,                 \* per task: the awaited call the task is suspended at
    chat,               \* per task: message.chat.id
    url,                \* per task: the Url parsed from the message text
    lock_guard,         \* per task: TRUE while handle_url's _guard is alive
    result,             \* per task: Option of what handle_url returned last
    trace,              \* per task: the calls the handler has made, in order
    media_cache,        \* storage: canonical url -> Option of the cache row
    cached,             \* per task: Option of the CachedMedia being replayed
    info,               \* per task: Option of the MediaInfo that was fetched
    downloaded,         \* per task: Option of the DownloadedMedia
    file_ids,           \* per task: Option of the (file_id, MediaType) list
    cleanup_guard,      \* per task: Option of FileCleanupGuard.paths
    delete_task,        \* per task: the paths handed to the spawned deletion task
    audit,              \* per task: the statuses the run passed to log_request
    args,               \* per task: the arguments of the awaited call
    written,            \* per task: the paths the yt-dlp run of the run wrote
    logged,             \* per task: the error the step that ran last has logged
    removing,           \* per task: the paths its deletion task has still to remove
    yt_dlp_runs,        \* the yt-dlp runs the downloads of the model draw from
    downloader,         \* the implementation of Downloader the pipeline is called with
    payload,            \* per task: the Display text of the DownloadError being handled
    \* The store by statement (PostgresStorage):
    tbl_media_cache,    \* table media_cache: the rows (id, source_url, caption)
    tbl_cached_files,   \* table cached_files: the rows, in insertion order
    next_id,            \* the serial of media_cache.id
    db_pc,              \* per client: the statement the call is suspended at
    db_call,            \* per client: Option of the call in progress
    db_local,           \* per client: the locals cache_id, caption, position of its call
    db_ret,             \* per client: Option of the call that returned last
    db_calls,           \* per client: the number of calls made
    last_store,         \* per url: Option of the store that returned last
    db_faulted,         \* a statement has failed for a reason of its own
    position_unique,    \* the schema: cached_files is UNIQUE (cache_id, position)
    \* The pure functions, applied to an input of their own:
    fn_op,              \* the function that is applied
    fn_arg,             \* its input
    fn_ret              \* the results so far, one per application

pipeline_vars ==
    <<processing_users, pc, chat, url, lock_guard, result, trace, media_cache,
      cached, info, downloaded, file_ids, cleanup_guard, delete_task, audit,
      args, written, logged, removing, yt_dlp_runs, downloader, payload>>

store_vars ==
    <<tbl_media_cache, tbl_cached_files, next_id, db_pc, db_call, db_local, db_ret,
      db_calls, last_store, db_faulted, position_unique>>

fn_vars == <<fn_op, fn_arg, fn_ret>>

vars == <<pipeline_vars, store_vars, fn_vars>>

\* -------------------------------------------------------- ConcurrencyLimiter
\* DashSet::insert is one atomic test-and-insert: it returns true exactly
\* when the value was absent, and the set contains the value afterwards.
try_lock_untested(set, chat_id) ==
    [guard |-> TRUE, set |-> set \cup {chat_id}]

try_lock(set, chat_id) ==
    [guard |-> chat_id \notin set, set |-> set \cup {chat_id}]

\* Drop for LockGuard: remove the chat from the set, unconditionally.
LockGuard_drop_forgets(set, chat_id) == set

LockGuard_drop(set, chat_id) == set \ {chat_id}

\* ------------------------------------------------------------------- URLs
\* A Url is host, path, query and fragment.  The host is its text in pieces
\* (<<"www.", "youtube.com">> is www.youtube.com).  The query is an Option of
\* the text after the `?`, a sequence of characters, as the Url holds it
\* (percent-encoded); the fragment is a string or None.
MkUrl(h, p, q, f) == [host |-> h, path |-> p, query |-> q, fragment |-> f]

\* The url of the messages of this model: a video with a tracking parameter
\* and a fragment.
Urls ==
    { MkUrl(<<"youtube.com">>, "/watch", Some(<<"v", "=", "x", "&", "t", "=", "1">>),
            "frag") }

\* str::ends_with for a host in pieces: the pieces of the hosts of this
\* model are cut so that a host ends with the suffix exactly when its last
\* piece is the suffix.
ends_with(h, suffix) == h # <<>> /\ h[Len(h)] = suffix

\* handler.rs 66-68.
is_youtube(h) == ends_with(h, "youtube.com") \/ h = <<"youtu.be">>

\* The character of the byte that two hex digits name; a byte that is no
\* ASCII character decodes to the replacement character (from_utf8_lossy).
HexDigits == {"0", "1", "2", "3", "4", "5", "6", "7", "8", "9",
              "a", "b", "c", "d", "e", "f", "A", "B", "C", "D", "E", "F"}
Replacement == "U+FFFD"

byte_char(h, l) ==
    LET pair == <<h, l>>
    IN  IF pair = <<"2", "0">> THEN " "
        ELSE IF pair = <<"2", "2">> THEN "\""
        ELSE IF pair = <<"2", "5">> THEN "%"
        ELSE IF pair = <<"2", "6">> THEN "&"
        ELSE IF pair = <<"5", "2">> THEN "R"
        ELSE IF pair = <<"5", "5">> THEN "U"
        ELSE IF pair = <<"5", "6">> THEN "V"
        ELSE IF pair = <<"6", "2">> THEN "b"
        ELSE IF pair = <<"6", "5">> THEN "e"
        ELSE IF pair = <<"6", "6">> THEN "f"
        ELSE Replacement

\* form_urlencoded's decoding of a name or a value: `+` is a space, `%` and
\* two hex digits are the byte they name, every other character is itself.
RECURSIVE decode(_)
decode(s) ==
    IF s = <<>> THEN <<>>
    ELSE IF Head(s) = "+" THEN <<" ">> \o decode(Tail(s))
    ELSE IF Head(s) = "%" /\ Len(s) >= 3 /\ s[2] \in HexDigits /\ s[3] \in HexDigits
         THEN <<byte_char(s[2], s[3])>> \o decode(SubSeq(s, 4, Len(s)))
    ELSE <<Head(s)>> \o decode(Tail(s))

\* The pieces of s between the separators.
RECURSIVE split(_, _)
split(s, sep) ==
    IF s = <<>> THEN << <<>> >>
    ELSE LET rest == split(Tail(s), sep)
         IN  IF Head(s) = sep THEN << <<>> >> \o rest
             ELSE << <<Head(s)>> \o Head(rest) >> \o Tail(rest)

\* One `name=value` piece: it is cut at its first `=`, both sides are decoded.
pair_of(piece) ==
    LET eqs == {k \in DOMAIN piece : piece[k] = "="}
        at == IF eqs = {} THEN Len(piece) + 1
              ELSE CHOOSE k \in eqs : \A j \in eqs : k <= j
    IN  <<decode(SubSeq(piece, 1, at - 1)), decode(SubSeq(piece, at + 1, Len(piece)))>>

\* Url::query_pairs: the decoded (name, value) pairs of the query in order;
\* an empty piece gives no pair, no query gives none.
RECURSIVE pairs_of(_)
pairs_of(pieces) ==
    IF pieces = <<>> THEN <<>>
    ELSE IF Head(pieces) = <<>> THEN pairs_of(Tail(pieces))
    ELSE <<pair_of(Head(pieces))>> \o pairs_of(Tail(pieces))

query_pairs(q) == IF IsSome(q) THEN pairs_of(split(Unwrap(q), "&")) ELSE <<>>

\* .find(|(key, _)| key == "v").map(|(_, value)| value): an Option.
RECURSIVE find_v(_)
find_v(pairs) ==
    IF pairs = <<>> THEN Nothing
    ELSE IF Head(pairs)[1] = <<"v">> THEN Some(Head(pairs)[2]) ELSE find_v(Tail(pairs))

\* Url::set_query of a special scheme: the text is stored with the
\* characters of the query encode set percent-encoded; `%`, `&`, `=` and `+`
\* are not in that set and are stored as they are.
RECURSIVE encode_query(_)
encode_query(s) ==
    IF s = <<>> THEN <<>>
    ELSE (IF Head(s) = " " THEN <<"%", "2", "0">>
          ELSE IF Head(s) = "\"" THEN <<"%", "2", "2">>
          ELSE IF Head(s) = "#" THEN <<"%", "2", "3">>
          ELSE IF Head(s) = "'" THEN <<"%", "2", "7">>
          ELSE IF Head(s) = "<" THEN <<"%", "3", "C">>
          ELSE IF Head(s) = ">" THEN <<"%", "3", "E">>
          ELSE <<Head(s)>>) \o encode_query(Tail(s))

cleanup_url(u) ==
    LET video_id == find_v(query_pairs(u.query))
    IN  [host     |-> u.host,
         path     |-> u.path,
         query    |-> IF is_youtube(u.host) /\ IsSome(video_id)
                      THEN Some(encode_query(<<"v", "=">> \o Unwrap(video_id)))
                      ELSE Nothing,
         fragment |-> None]

\* ----------------------------------------------------------- validator.rs
MAX_DURATION_SECONDS == 600
MAX_FILESIZE_MB == 500
MAX_FILESIZE_BYTES == MAX_FILESIZE_MB * 1024 * 1024
MAX_VIDEO_PLAYLIST_ITEMS == 5
MAX_IMAGE_PLAYLIST_ITEMS == 10

\* A MediaInfo, with the fields the pipeline reads.  entries is None or the
\* child descriptors in order; thumbnail is whether a thumbnail url is set.
MkInfo(id, entries, thumbnail, duration, filesize) ==
    [id |-> id, entries |-> entries, thumbnail |-> thumbnail,
     duration |-> duration, filesize |-> filesize]
MkEntry(id, media_type) == [id |-> id, media_type |-> media_type]

\* `{:.0}` of a / b: the quotient rounded to the nearest integer, a tie to
\* the even one.
round_div_undivided(a, b) == a

round_div(a, b) ==
    LET q == a \div b
        r == a % b
    IN  IF 2 * r > b THEN q + 1
        ELSE IF 2 * r < b THEN q
        ELSE IF q % 2 = 0 THEN q ELSE q + 1

\* validator.rs 34-44: the first entry decides the limit of a playlist.
playlist_limit_of_videos(entries) == MAX_VIDEO_PLAYLIST_ITEMS

playlist_limit(entries) ==
    LET is_video_playlist ==
            IF Len(entries) = 0 THEN FALSE
            ELSE IF entries[1].media_type = None THEN FALSE
            ELSE entries[1].media_type = "video"
    IN  IF is_video_playlist THEN MAX_VIDEO_PLAYLIST_ITEMS ELSE MAX_IMAGE_PLAYLIST_ITEMS

\* validator.rs 54-55 and 62-63: a value that is there and over its limit.
exceeds_at_limit(value, limit) == IsSome(value) /\ Unwrap(value) >= limit

exceeds(value, limit) == IsSome(value) /\ Unwrap(value) > limit

\* The result: Ok, or the error as its Display text names it, with what was
\* found and the limit (minutes, MB, items).
validate_media_metadata(metadata) ==
    IF IsSome(metadata.entries)
    THEN LET entries == Unwrap(metadata.entries)
             limit == playlist_limit(entries)
         IN  IF Len(entries) > limit
             THEN [error |-> "TooManyItems", found |-> Len(entries), limit |-> limit]
             ELSE [error |-> "Ok", found |-> 0, limit |-> 0]
    ELSE IF exceeds(metadata.duration, MAX_DURATION_SECONDS)
         THEN [error |-> "TooLong", found |-> round_div(Unwrap(metadata.duration), 60),
               limit |-> round_div(MAX_DURATION_SECONDS, 60)]
    ELSE IF exceeds(metadata.filesize, MAX_FILESIZE_BYTES)
         THEN [error |-> "TooLarge", found |-> (Unwrap(metadata.filesize) \div 1024) \div 1024,
               limit |-> (MAX_FILESIZE_BYTES \div 1024) \div 1024]
    ELSE [error |-> "Ok", found |-> 0, limit |-> 0]

\* The descriptors the metadata fetch returns in this model: a single item
\* with a thumbnail, a single item that is too long, a playlist of two and a
\* playlist that lists the same entry twice.
Infos ==
    { MkInfo("a", Nothing, TRUE, Some(60), Nothing),
      MkInfo("a", Nothing, TRUE, Some(3000), Nothing),
      MkInfo("p", Some(<<MkEntry("a", "video"), MkEntry("b", "video")>>), FALSE,
             Nothing, Nothing),
      MkInfo("p", Some(<<MkEntry("a", None), MkEntry("a", None)>>), FALSE,
             Nothing, Nothing) }

\* ---------------------------------------------------------- downloader.rs
Ids == {"a", "b"}
NoExt == "no ext"

MediaType_from_extension(ext) ==
    IF ext \in {"mp4", "webm", "gif", "mov", "mkv"} THEN "Video"
    ELSE IF ext \in {"jpg", "jpeg", "png", "webp", "heic"} THEN "Photo"
    ELSE None

\* The output template "./{uuid}.%(id)s.%(ext)s"; the uuid is fresh per call.
FilePath(uuid, id, ext) == <<uuid, id, ext>>
ThumbPath(uuid, id) == <<uuid, id, "thumbnail">>

MkItem(filepath, media_type, thumb) ==
    [filepath |-> filepath, media_type |-> media_type, thumbnail_filepath |-> thumb]

DlOk(media) == [ok |-> TRUE, media |-> Some(media), err |-> None]
DlErr(e) == [ok |-> FALSE, media |-> Nothing, err |-> e]

\* What one yt-dlp run does: it times out, it fails, or it prints the lines
\* in `files` (id -> the ext of the line that has a _filename, NoExt when the
\* line has no ext, None when there is no such line); thumb: a thumbnail file
\* was written next to the media file.  The files of a run are on disk: a
\* run that is timed out has written what it wrote until then.
MkRun(status, fa, fb, thumb) ==
    [status |-> status, files |-> [i \in Ids |-> IF i = "a" THEN fa ELSE fb],
     thumb |-> thumb]

YtDlpRuns ==
    { MkRun("timeout", "mp4", None, FALSE),
      MkRun("failed", None, None, FALSE),
      MkRun("ok", None, None, FALSE),
      MkRun("ok", "mp4", "jpg", TRUE),
      MkRun("ok", "jpg", NoExt, FALSE),
      MkRun("ok", "bin", None, FALSE) }

\* More runs: a gif, which is a video by its extension, without a thumbnail
\* file, and a photo next to which a thumbnail file was written.
MoreYtDlpRuns ==
    YtDlpRuns \cup { MkRun("ok", "gif", "jpg", FALSE),
                     MkRun("ok", "jpg", NoExt, TRUE) }

RECURSIVE group_items(_, _, _)
group_items(entries, uuid, files) ==
    IF entries = <<>> THEN <<>>
    ELSE LET id == Head(entries).id
             ext == IF id \in Ids THEN files[id] ELSE None
             rest == group_items(Tail(entries), uuid, files)
         IN  IF ext \in {None, NoExt} \/ MediaType_from_extension(ext) = None
             THEN rest
             ELSE <<MkItem(FilePath(uuid, id, ext), MediaType_from_extension(ext), Nothing)>>
                  \o rest

download_media(i, uuid, run) ==
    LET is_single_with_thumbnail == ~IsSome(i.entries) /\ i.thumbnail
    IN  IF run.status = "timeout" THEN DlErr("Timeout")
        ELSE IF run.status = "failed" THEN DlErr("CommandFailed")
        ELSE IF \A id \in Ids : run.files[id] = None THEN DlErr("ParsingFailed")
        ELSE IF IsSome(i.entries)
        THEN LET items == group_items(Unwrap(i.entries), uuid, run.files)
             IN  IF items = <<>> THEN DlErr("ParsingFailed")
                 ELSE DlOk([kind |-> "Group", items |-> items])
        ELSE LET ext == IF i.id \in Ids THEN run.files[i.id] ELSE None
             IN  IF ext \in {None, NoExt} THEN DlErr("ParsingFailed")
                 ELSE IF MediaType_from_extension(ext) = None THEN DlErr("ParsingFailed")
                 ELSE DlOk([kind |-> "Single", items |->
                        <<MkItem(FilePath(uuid, i.id, ext), MediaType_from_extension(ext),
                                 IF is_single_with_thumbnail /\ run.thumb
                                 THEN Some(ThumbPath(uuid, i.id)) ELSE Nothing)>>])

\* The paths on disk after the run: the file of every line, and the
\* thumbnail when --write-thumbnail was passed (downloader.rs 238-250).
files_written(i, uuid, run) ==
    {FilePath(uuid, id, run.files[id]) : id \in {j \in Ids : run.files[j] # None}}
    \cup (IF ~IsSome(i.entries) /\ i.thumbnail /\ run.thumb
          THEN {ThumbPath(uuid, i.id)} ELSE {})

\* downloader.rs 13-21: the Display text of a DownloadError, in words; arg is
\* the text the error carries (the stderr of yt-dlp, the parse error).
DownloadError_to_string(kind, arg) ==
    IF kind = "CommandFailed" THEN <<"yt-dlp", "command", "failed:">> \o arg
    ELSE IF kind = "ParsingFailed"
         THEN <<"Failed", "to", "parse", "yt-dlp", "output:">> \o arg
    ELSE <<"yt-dlp", "timed", "out", "after">> \o arg \o <<"seconds">>

\* What yt-dlp wrote to stderr, the text of a parse error and the seconds of
\* the download timeout (downloader.rs 11).
Stderr == <<"ERROR:", "[youtube]", "x:", "Private", "video.">>
ParseErrorText == <<"Could", "not", "extract", "any", "media", "metadata">>
DownloadTimeoutSecs == <<"300">>

\* The text of the error of a result of YtDlpDownloader::download_media.
error_of(r) ==
    IF r.ok THEN <<>>
    ELSE DownloadError_to_string(r.err,
             IF r.err = "CommandFailed" THEN Stderr
             ELSE IF r.err = "ParsingFailed" THEN ParseErrorText
             ELSE DownloadTimeoutSecs)

\* What an implementation of Downloader other than YtDlpDownloader can
\* return from download_media (downloader.rs 145-152): here a group without
\* items and errors of other texts; it writes no file.
OtherDownloads ==
    { [result |-> DlOk([kind |-> "Group", items |-> <<>>]), written |-> {},
       error |-> <<>>],
      [result |-> DlErr("CommandFailed"), written |-> {},
       error |-> DownloadError_to_string("CommandFailed",
                    <<"ERROR:", "Unsupported", "URL">>)],
      [result |-> DlErr("ParsingFailed"), written |-> {},
       error |-> DownloadError_to_string("ParsingFailed",
                    <<"No", "download", "output", "for", "id", "a">>)] }

\* The results of download_media of the downloader dl: the result, the
\* files that were written and the text of the error.
Downloads(dl, i, uuid, runs) ==
    { [result |-> download_media(i, uuid, run), written |-> files_written(i, uuid, run),
       error |-> error_of(download_media(i, uuid, run))] : run \in runs }
    \cup (IF dl = "YtDlpDownloader" THEN {} ELSE OtherDownloads)

\* The texts of the errors of get_media_metadata of the downloader dl
\* (downloader.rs 203-230).
MetadataErrors(dl) ==
    { DownloadError_to_string("CommandFailed", Stderr) }
    \cup (IF dl = "YtDlpDownloader" THEN {}
          ELSE { DownloadError_to_string("ParsingFailed",
                     <<"expected", "value", "at", "line", "1", "column", "1">>),
                 DownloadError_to_string("Timeout", <<"30">>) })

\* ------------------------------------------------------- FileCleanupGuard
RECURSIVE filepaths(_)
filepaths(items) ==
    IF items = <<>> THEN <<>> ELSE <<Head(items).filepath>> \o filepaths(Tail(items))

FileCleanupGuard_from_downloaded_media(media) ==
    IF media.kind = "Single"
    THEN LET item == media.items[1]
         IN  IF IsSome(item.thumbnail_filepath)
             THEN <<item.filepath, Unwrap(item.thumbnail_filepath)>>
             ELSE <<item.filepath>>
    ELSE filepaths(media.items)

\* handler.rs 50-57: the removals run in a task of their own (tokio::spawn),
\* and its handle is dropped: the code after the drop waits for none of the
\* paths that are still to be removed.
joins_delete_task(paths) == paths # <<>>

joins(paths) == FALSE

\* Drop: take the paths; nothing is spawned for an empty list, otherwise one
\* task is spawned that removes each path in turn.
FileCleanupGuard_drop_keeps(guard) == <<>>

FileCleanupGuard_drop(guard) == IF IsSome(guard) THEN Unwrap(guard) ELSE <<>>

\* -------------------------------------------------------------- storage.rs
media_type_to_str(media_type) == IF media_type = "Video" THEN "video" ELSE "photo"

str_to_media_type(str) ==
    IF str = "video" THEN "Video" ELSE IF str = "photo" THEN "Photo" ELSE None

MkCachedFile(file_id, media_type) ==
    [telegram_file_id |-> file_id, media_type |-> media_type]

RECURSIVE cached_files_of(_)
cached_files_of(rows) ==
    IF rows = <<>> THEN <<>>
    ELSE LET r == Head(rows)
             rest == cached_files_of(Tail(rows))
         IN  IF str_to_media_type(r.media_type) = None THEN rest
             ELSE <<MkCachedFile(r.telegram_file_id, str_to_media_type(r.media_type))>>
                  \o rest

\* The lookup as the pipeline sees it: the Option<CachedMedia> of one call.
get_cached_media_unchecked(cache, source_url, db_ok) ==
    IF ~db_ok THEN Nothing
    ELSE IF ~IsSome(cache[source_url]) THEN Nothing
    ELSE LET row == Unwrap(cache[source_url])
         IN  Some([caption |-> row.caption, files |-> cached_files_of(row.files)])

get_cached_media(cache, source_url, db_ok) ==
    IF ~db_ok THEN Nothing
    ELSE IF ~IsSome(cache[source_url]) THEN Nothing
    ELSE LET row == Unwrap(cache[source_url])
             files == cached_files_of(row.files)
         IN  IF row.files = <<>> \/ files = <<>> THEN Nothing
             ELSE Some([caption |-> row.caption, files |-> files])

RECURSIVE file_rows(_)
file_rows(files) ==
    IF files = <<>> THEN <<>>
    ELSE <<MkCachedFile(Head(files)[1], media_type_to_str(Head(files)[2]))>>
         \o file_rows(Tail(files))

\* The upsert as the pipeline sees it: the row of the url holds the new
\* caption and the new files; a failed upsert returns early and stores nothing.
store_cached_media(cache, source_url, caption, files, db_ok) ==
    IF ~db_ok THEN cache
    ELSE [cache EXCEPT ![source_url] = Some([caption |-> caption, files |-> file_rows(files)])]

CleanUrls == {cleanup_url(u) : u \in Urls}

\* handler.rs 302: let clean_url = cleanup_url(url): the canonical url of
\* each url a message can hold.
clean_url_of == [u \in Urls |-> cleanup_url(u)]

\* ------------------------------------------------------------- handler.rs
\* The caption is kept symbolic: the source url and the id it was built from.
build_caption(i, source_url) == <<source_url, i.id>>
EmptyCaption == <<>>

\* The number of characters of the caption build_caption returns, from the
\* number of characters of the source url and of the quote (the escaped
\* uploader and description, joined).  The header is its two links around
\* the url, the quote is cut to the space that is left and marked "[...]".
HEADER_CHARS == 80
CAPTION_CHARS == 1024
saturating_sub(a, b) == IF a > b THEN a - b ELSE 0

build_caption_len(url_chars, quote_chars) ==
    LET header == HEADER_CHARS + url_chars
        overhead == header + 2 + 12 + 13 + 5
        available_space_for_quote == saturating_sub(CAPTION_CHARS, overhead)
        final_quote == IF quote_chars > available_space_for_quote
                       THEN available_space_for_quote + 5
                       ELSE quote_chars
    IN  header + 2 + 12 + final_quote + 13

\* str::replace: every character c of s is replaced by the characters by.
RECURSIVE replace(_, _, _)
replace(s, c, by) ==
    IF s = <<>> THEN <<>>
    ELSE (IF Head(s) = c THEN by ELSE <<Head(s)>>) \o replace(Tail(s), c, by)

\* downloader.rs 93-97.
escape_html_amp_last(s) ==
    replace(replace(replace(s, "<", <<"&", "l", "t", ";">>),
                    ">", <<"&", "g", "t", ";">>),
            "&", <<"&", "a", "m", "p", ";">>)

escape_html(s) ==
    replace(replace(replace(s, "&", <<"&", "a", "m", "p", ";">>),
                    "<", <<"&", "l", "t", ";">>),
            ">", <<"&", "g", "t", ";">>)

\* downloader.rs 107-125: the quote, character by character: the escaped
\* uploader in <i></i> when there is one that is not empty, and the escaped
\* description (or title) when it is not empty, joined by a newline.
full_quote_content(uploader, description) ==
    LET part1 == IF IsSome(uploader) /\ Unwrap(uploader) # <<>>
                 THEN << <<"<", "i", ">">> \o escape_html(Unwrap(uploader))
                         \o <<"<", "/", "i", ">">> >>
                 ELSE <<>>
        part2 == IF IsSome(description) /\ Unwrap(description) # <<>>
                 THEN <<escape_html(Unwrap(description))>> ELSE <<>>
        quote_parts == part1 \o part2
    IN  IF Len(quote_parts) = 2 THEN quote_parts[1] \o <<"\n">> \o quote_parts[2]
        ELSE IF Len(quote_parts) = 1 THEN quote_parts[1]
        ELSE <<>>

\* downloader.rs 128-137: the quote, cut to the space that is left.
final_quote(uploader, description, available_space_for_quote) ==
    LET full == full_quote_content(uploader, description)
    IN  IF Len(full) > available_space_for_quote
        THEN SubSeq(full, 1, available_space_for_quote) \o <<"[", ".", ".", ".", "]">>
        ELSE full

\* The file id the chat API assigns to an uploaded file, and the empty
\* string.
FileId(filepath) == <<"file_id", filepath[2], filepath[3]>>
NoFileId == <<>>

\* What the message holds that the chat API answers the upload of an item
\* with: a photo comes back as a photo, a video as a video; a gif, which is
\* uploaded as a video, comes back as a video or as neither (the chat API
\* may take it for an animation or a document).
MessageKinds(item) ==
    IF item.media_type = "Photo" THEN {"photo"}
    ELSE IF item.filepath[3] = "gif" THEN {"video", "other"}
    ELSE {"video"}

\* The replies to the upload of the items: one message per item, in order.
Replies(items) ==
    {r \in [1..Len(items) -> {"video", "photo", "other"}] :
        \A k \in 1..Len(items) : r[k] \in MessageKinds(items[k])}

BusyText == "I'm already working on a request for you. Please wait until it's finished!"
FetchErrorText == "Sorry, I could not fetch information for that link. It might require age verification, be private or unsupported."
TimeoutText == "Sorry, the download is taking too long. Please try a shorter video."
DownloadErrorText == "Sorry, I could not download the media. Please try again later."
SendErrorText == "Sorry, I encountered an error while sending the media."
NoSupportedText == "Sorry, although multiple items were found, none were of a supported type for a media group."

\* The await points.  Of handle_url:
HandlerPcs == {"busy_text", "chat_action", "reaction", "clear_reaction"}
\* of process_download_request: the send_text_message of each failure branch,
TextPcs == {"text_fetch_error", "text_validation", "text_timeout",
            "text_download_error", "text_send_error", "text_no_supported"}
\* the log_request of each exit,
LogPcs == {"log_cached", "log_validation_error", "log_download_error",
           "log_send_error", "log_success"}
\* and the other awaited calls.
PipelinePcs == {"cache_check", "replay", "metadata", "download", "send_single",
                "send_group", "store"} \cup TextPcs \cup LogPcs

\* The call that is awaited at each await point.
call_of(p) ==
    IF p \in TextPcs \cup {"busy_text"} THEN "send_text_message"
    ELSE IF p \in LogPcs THEN "log_request"
    ELSE IF p = "chat_action" THEN "send_chat_action"
    ELSE IF p \in {"reaction", "clear_reaction"} THEN "set_message_reaction"
    ELSE IF p = "cache_check" THEN "get_cached_media"
    ELSE IF p = "replay" THEN "send_cached_media"
    ELSE IF p = "metadata" THEN "get_media_metadata"
    ELSE IF p = "download" THEN "download_media"
    ELSE IF p = "send_single" THEN "send_single_item"
    ELSE IF p = "send_group" THEN "send_media_group"
    ELSE "store_cached_media"

\* The text each send_text_message carries (main.rs 145, handler.rs 101, 118,
\* 140-142, 188, 230, 251); a validation error is sent as its Display text,
\* which names the error, what was found and the limit.
text_of_upstream(p, i) ==
    IF p = "busy_text" THEN [text |-> BusyText]
    ELSE IF p \in {"text_fetch_error", "text_download_error"}
         THEN [text |-> "yt-dlp command failed: ERROR: [youtube] x: Private video."]
    ELSE IF p = "text_timeout" THEN [text |-> TimeoutText]
    ELSE IF p = "text_send_error" THEN [text |-> SendErrorText]
    ELSE IF p = "text_no_supported" THEN [text |-> NoSupportedText]
    ELSE [text |-> validate_media_metadata(Unwrap(i))]

text_of(p, i) ==
    IF p = "busy_text" THEN [text |-> BusyText]
    ELSE IF p = "text_fetch_error" THEN [text |-> FetchErrorText]
    ELSE IF p = "text_timeout" THEN [text |-> TimeoutText]
    ELSE IF p = "text_download_error" THEN [text |-> DownloadErrorText]
    ELSE IF p = "text_send_error" THEN [text |-> SendErrorText]
    ELSE IF p = "text_no_supported" THEN [text |-> NoSupportedText]
    ELSE [text |-> validate_media_metadata(Unwrap(i))]

\* The log_request of each failure branch: Err(()) of the validation and of
\* the download, None of the send (handler.rs 337-346, 361-370, 403-406).
after_text_unlogged(p) ==
    IF p \in {"text_fetch_error", "text_validation"} THEN "log_validation_error"
    ELSE IF p \in {"text_timeout", "text_download_error"} THEN "log_download_error"
    ELSE "clear_reaction"

after_text(p) ==
    IF p \in {"text_fetch_error", "text_validation"} THEN "log_validation_error"
    ELSE IF p \in {"text_timeout", "text_download_error"} THEN "log_download_error"
    ELSE "log_send_error"

\* The status literal of each log_request (handler.rs 317, 342, 366, 401, 405).
audit_status_hit_as_success(p) ==
    IF p \in {"log_cached", "log_success"} THEN "success"
    ELSE IF p = "log_validation_error" THEN "validation_error"
    ELSE "error"

audit_status(p) ==
    IF p = "log_cached" THEN "cached"
    ELSE IF p = "log_validation_error" THEN "validation_error"
    ELSE IF p = "log_success" THEN "success"
    ELSE "error"

\* handler.rs 309-324: a replay that is ok logs cached and returns, a failed
\* one falls through to the validation.
after_replay_tells_user(ok) == IF ok THEN "log_cached" ELSE "text_send_error"

after_replay(ok) == IF ok THEN "log_cached" ELSE "metadata"

\* handler.rs 96-123: what follows the metadata fetch.
after_metadata_silent(r) ==
    IF ~IsSome(r) THEN "log_validation_error"
    ELSE IF validate_media_metadata(Unwrap(r)).error # "Ok" THEN "text_validation"
    ELSE "download"

after_metadata_unvalidated(r) == IF ~IsSome(r) THEN "text_fetch_error" ELSE "download"

after_metadata(r) ==
    IF ~IsSome(r) THEN "text_fetch_error"
    ELSE IF validate_media_metadata(Unwrap(r)).error # "Ok" THEN "text_validation"
    ELSE "download"

\* telegram_api.rs 300-323: the batch of send_cached_media_group.
cached_group_of(files, caption) ==
    [k \in 1..Len(files) |->
        [kind |-> files[k].media_type, file_id |-> files[k].telegram_file_id,
         caption |-> IF k = 1 THEN caption ELSE EmptyCaption]]

\* handler.rs 266-280: the call send_cached_media makes for a cached entry.
send_cached_media_as_video(entry) ==
    IF Len(entry.files) = 1
    THEN [method |-> "send_cached_video",
          file_id |-> entry.files[1].telegram_file_id, caption |-> entry.caption]
    ELSE [method |-> "send_cached_media_group",
          media |-> cached_group_of(entry.files, entry.caption)]

send_cached_media(entry) ==
    IF Len(entry.files) = 1
    THEN [method |-> IF entry.files[1].media_type = "Video" THEN "send_cached_video"
                     ELSE "send_cached_photo",
          file_id |-> entry.files[1].telegram_file_id, caption |-> entry.caption]
    ELSE [method |-> "send_cached_media_group",
          media |-> cached_group_of(entry.files, entry.caption)]

\* handler.rs 204-227: the batch of send_media_group_step.
media_group_of_all_captioned(items, caption) ==
    [k \in 1..Len(items) |->
        [kind |-> items[k].media_type, file |-> items[k].filepath, caption |-> caption]]

media_group_of(items, caption) ==
    [k \in 1..Len(items) |->
        [kind |-> items[k].media_type, file |-> items[k].filepath,
         caption |-> IF k = 1 THEN caption ELSE EmptyCaption]]

\* handler.rs 135-148, 377-392 and 229-238: what follows the download.
after_download_all_generic(r) ==
    IF ~r.ok THEN "text_download_error"
    ELSE IF Unwrap(r.media).kind = "Single" THEN "send_single"
    ELSE IF media_group_of(Unwrap(r.media).items, EmptyCaption) = <<>>
         THEN "text_no_supported"
    ELSE "send_group"

after_download(r) ==
    IF ~r.ok THEN (IF r.err = "Timeout" THEN "text_timeout" ELSE "text_download_error")
    ELSE IF Unwrap(r.media).kind = "Single" THEN "send_single"
    ELSE IF media_group_of(Unwrap(r.media).items, EmptyCaption) = <<>>
         THEN "text_no_supported"
    ELSE "send_group"

\* handler.rs 177-193, 237-256 and 396-407: what follows the send.
after_send_no_store(ok) == IF ok THEN "log_success" ELSE "text_send_error"

after_send(ok) == IF ok THEN "store" ELSE "text_send_error"

\* handler.rs 160-175: the call send_single_item makes: a video goes with
\* the thumbnail of the item, send_photo takes none.
send_single_item_bare(item, caption) ==
    [method |-> IF item.media_type = "Video" THEN "send_video" ELSE "send_photo",
     file |-> item.filepath, caption |-> caption, thumbnail |-> Nothing]

send_single_item(item, caption) ==
    IF item.media_type = "Video"
    THEN [method |-> "send_video", file |-> item.filepath, caption |-> caption,
          thumbnail |-> item.thumbnail_filepath]
    ELSE [method |-> "send_photo", file |-> item.filepath, caption |-> caption,
          thumbnail |-> Nothing]

\* telegram_api.rs 130-135 and 155-160: the file id send_video and
\* send_photo return: that of the video (of the photo) of the message, the
\* empty string when the message holds none (unwrap_or_default).
file_id_of(item, message) ==
    IF item.media_type = "Video"
    THEN (IF message = "video" THEN FileId(item.filepath) ELSE NoFileId)
    ELSE (IF message = "photo" THEN FileId(item.filepath) ELSE NoFileId)

\* telegram_api.rs 201-218: the SentMedia of the messages of a group: a
\* message that holds neither a video nor a photo gives none.
RECURSIVE sent_media(_, _)
sent_media(items, messages) ==
    IF items = <<>> THEN <<>>
    ELSE LET rest == sent_media(Tail(items), Tail(messages))
         IN  IF Head(messages) = "video"
             THEN << <<FileId(Head(items).filepath), "Video">> >> \o rest
             ELSE IF Head(messages) = "photo"
             THEN << <<FileId(Head(items).filepath), "Photo">> >> \o rest
             ELSE rest

\* The (file_id, MediaType) list of a successful send (handler.rs 170, 174,
\* 381, 386-390) that was answered with the messages.
sent_files(media, messages) ==
    IF media.kind = "Single"
    THEN << <<file_id_of(media.items[1], messages[1]), media.items[1].media_type>> >>
    ELSE sent_media(media.items, messages)

\* -------------------------------------------------------------- handle_url
\* `let _guard = ...` keeps the guard until handle_url returns: the guard is
\* dropped at the step that returns ("idle"), on every return.
guard_dropped_at_once(next_pc) == TRUE

guard_dropped_at(next_pc) == next_pc = "idle"

\* The match on try_lock's result: Some(guard) goes on, None answers Busy.
after_try_lock_no_return(guard) == "chat_action"

after_try_lock(guard) == IF guard THEN "chat_action" ELSE "busy_text"

\* The limiter's side of a step of handle_url that leaves the task at
\* next_pc: the guard goes when its scope ends.
Scope(t, c, next_pc, has_guard, set) ==
    IF has_guard /\ guard_dropped_at(next_pc)
    THEN /\ processing_users' = LockGuard_drop(set, c)
         /\ lock_guard' = [lock_guard EXCEPT ![t] = FALSE]
    ELSE /\ processing_users' = set
         /\ lock_guard' = [lock_guard EXCEPT ![t] = has_guard]

\* handler.rs 396-399: the store gets the canonical url, the caption that
\* was sent and the sent records.
store_args_raw_url(u, i, files) ==
    [source_url |-> u, caption |-> build_caption(Unwrap(i), clean_url_of[u]),
     files |-> Unwrap(files)]

store_args(u, i, files) ==
    [source_url |-> clean_url_of[u],
     caption |-> build_caption(Unwrap(i), clean_url_of[u]),
     files |-> Unwrap(files)]

\* The arguments of the call awaited at p, from the url of the message and
\* the locals of the run: the cached entry, the info, the downloaded media
\* and the sent records.
args_of(p, u, c, i, media, files) ==
    LET clean_url == clean_url_of[u]
    IN  IF p \in TextPcs \cup {"busy_text"} THEN text_of(p, i)
        ELSE IF p \in LogPcs THEN [source_url |-> clean_url, status |-> audit_status(p)]
        ELSE IF p = "cache_check" THEN [source_url |-> clean_url]
        ELSE IF p = "replay" THEN send_cached_media(Unwrap(c))
        ELSE IF p = "metadata" THEN [url |-> clean_url]
        ELSE IF p = "download" THEN [info |-> Unwrap(i), url |-> clean_url]
        ELSE IF p = "send_single"
             THEN send_single_item(Unwrap(media).items[1],
                                   build_caption(Unwrap(i), clean_url))
        ELSE IF p = "send_group"
             THEN [media |-> media_group_of(Unwrap(media).items,
                                            build_caption(Unwrap(i), clean_url))]
        ELSE IF p = "store" THEN store_args(u, i, files)
        ELSE IF p = "chat_action" THEN [action |-> "Typing"]
        ELSE [reaction |-> IF p = "reaction" THEN Some("eyes") ELSE Nothing]

\* The task makes the call of next_pc and is suspended there.
Await(t, next_pc) ==
    /\ pc' = [pc EXCEPT ![t] = next_pc]
    /\ trace' = [trace EXCEPT ![t] = Append(@, call_of(next_pc))]
    /\ audit' = [audit EXCEPT ![t] =
                    IF next_pc \in LogPcs THEN Append(@, audit_status(next_pc)) ELSE @]
    /\ args' = [args EXCEPT ![t] =
                    args_of(next_pc, url'[t], cached'[t], info'[t], downloaded'[t],
                            file_ids'[t])]
    /\ UNCHANGED <<yt_dlp_runs, downloader, store_vars, fn_vars>>

\* handle_url returns ret: its locals are gone, the task is free again.
Return(t, ret) ==
    /\ pc' = [pc EXCEPT ![t] = "idle"]
    /\ Scope(t, chat[t], "idle", lock_guard[t], processing_users)
    /\ result' = [result EXCEPT ![t] = Some(<<ret, lock_guard[t]>>)]
    /\ trace' = [trace EXCEPT ![t] = <<>>]
    /\ audit' = [audit EXCEPT ![t] = <<>>]
    /\ args' = [args EXCEPT ![t] = Nothing]
    /\ delete_task' = [delete_task EXCEPT ![t] = <<>>]
    /\ written' = [written EXCEPT ![t] = {}]
    /\ cached' = [cached EXCEPT ![t] = Nothing]
    /\ info' = [info EXCEPT ![t] = Nothing]
    /\ downloaded' = [downloaded EXCEPT ![t] = Nothing]
    /\ file_ids' = [file_ids EXCEPT ![t] = Nothing]
    /\ cleanup_guard' = [cleanup_guard EXCEPT ![t] = Nothing]
    /\ payload' = [payload EXCEPT ![t] = <<>>]
    /\ UNCHANGED <<chat, url, media_cache, removing, logged>>
    /\ UNCHANGED <<yt_dlp_runs, downloader, store_vars, fn_vars>>

\* main.rs 136-150: a message arrives; try_lock runs before any await.  (A
\* slot takes its next message when the deletion task of its last run has
\* ended; until then the messages go to the other slots.)
handle_url_try_lock(t) ==
    /\ pc[t] = "idle"
    /\ removing[t] = <<>>
    /\ result' = [result EXCEPT ![t] = Nothing]
    /\ UNCHANGED <<media_cache, cached, info, downloaded, file_ids, cleanup_guard,
                   delete_task, written, removing, logged, payload>>
    /\ \E c \in Chats, u \in Urls :
         LET r == try_lock(processing_users, c)
         IN  /\ chat' = [chat EXCEPT ![t] = c]
             /\ url' = [url EXCEPT ![t] = u]
             /\ Scope(t, c, after_try_lock(r.guard), r.guard, r.set)
             /\ Await(t, after_try_lock(r.guard))

\* main.rs 142-148: the Busy answer; `?` returns the transport error.
handle_url_busy_text(t) ==
    /\ pc[t] = "busy_text"
    /\ \E ok \in BOOLEAN : Return(t, IF ok THEN "Ok" ELSE "Err")

\* One awaited call of handle_url with `?`: an error returns it, otherwise
\* the handler goes on to next_pc.
Try(t, next_pc) ==
    \E ok \in BOOLEAN :
        IF ok
        THEN /\ UNCHANGED <<chat, url, result, media_cache, cached, info, downloaded,
                            file_ids, cleanup_guard, delete_task, written, removing,
                            logged, payload>>
             /\ Scope(t, chat[t], next_pc, lock_guard[t], processing_users)
             /\ Await(t, next_pc)
        ELSE Return(t, "Err")

\* main.rs 151-152: send_chat_action(...).await?
handle_url_chat_action(t) ==
    /\ pc[t] = "chat_action"
    /\ Try(t, "reaction")

\* main.rs 153-161: set_message_reaction(eyes).await?, then the pipeline
\* starts and makes its first call (handler.rs 302-307).
handle_url_reaction(t) ==
    /\ pc[t] = "reaction"
    /\ Try(t, "cache_check")

\* main.rs 162-163: set_message_reaction(None).await?; Ok(())
handle_url_clear_reaction(t) ==
    /\ pc[t] = "clear_reaction"
    /\ ~joins(removing[t])
    /\ \E ok \in BOOLEAN : Return(t, IF ok THEN "Ok" ELSE "Err")

\* ------------------------------------------------ process_download_request
\* A step of the pipeline leaves the handler's own state as it is; e is the
\* error the step writes to the log (log::error!), None when it writes none.
GotoLogged(t, next_pc, e) ==
    /\ logged' = [logged EXCEPT ![t] = e]
    /\ UNCHANGED <<processing_users, chat, url, lock_guard, result>>
    /\ Await(t, next_pc)

Goto(t, next_pc) == GotoLogged(t, next_pc, None)

\* handler.rs 307-327: a hit is replayed, a miss goes on to the validation.
after_cache_check_reports(r) == IF IsSome(r) THEN "replay" ELSE "text_fetch_error"

after_cache_check(r) == IF IsSome(r) THEN "replay" ELSE "metadata"

\* handler.rs 307-311: the lookup returns.
process_cache_check(t) ==
    /\ pc[t] = "cache_check"
    /\ UNCHANGED <<media_cache, info, downloaded, file_ids, cleanup_guard, delete_task,
                   written, removing, payload>>
    /\ \E db_ok \in BOOLEAN :
         LET r == get_cached_media(media_cache, clean_url_of[url[t]], db_ok)
         IN  /\ cached' = [cached EXCEPT ![t] = r]
             /\ GotoLogged(t, after_cache_check(r),
                           IF db_ok THEN None ELSE "Cache lookup failed")

\* handler.rs 309-325: neither branch of the replay calls the store: Ok logs
\* and returns, Err writes a warning and falls through.
cache_after_replay_invalidates(cache, source_url, ok) ==
    IF ok THEN cache ELSE [cache EXCEPT ![source_url] = Nothing]

cache_after_replay(cache, source_url, ok) == cache

\* handler.rs 309-325, 282-291: the replay returns.
process_replay(t) ==
    /\ pc[t] = "replay"
    /\ cached' = [cached EXCEPT ![t] = Nothing]
    /\ UNCHANGED <<info, downloaded, file_ids, cleanup_guard, delete_task,
                   written, removing, payload>>
    /\ \E ok \in BOOLEAN :
         /\ media_cache' = cache_after_replay(media_cache, clean_url_of[url[t]], ok)
         /\ Goto(t, after_replay(ok))

\* handler.rs 96-123, 327-350: the metadata fetch returns and is validated.
process_metadata(t) ==
    /\ pc[t] = "metadata"
    /\ UNCHANGED <<media_cache, cached, downloaded, file_ids, cleanup_guard, delete_task,
                   written, removing>>
    /\ \E r \in {Nothing} \cup {Some(i) : i \in Infos} :
         /\ info' = [info EXCEPT ![t] = r]
         /\ IF IsSome(r) THEN UNCHANGED payload
            ELSE \E e \in MetadataErrors(downloader) :
                     payload' = [payload EXCEPT ![t] = e]
         /\ Goto(t, after_metadata(r))

\* Every `let _ = telegram_api.send_text_message(...)` of the pipeline
\* returns: its result is ignored, the branch's log_request follows.
process_text(t) ==
    /\ pc[t] \in TextPcs
    /\ UNCHANGED <<media_cache, cached, info, downloaded, file_ids, cleanup_guard,
                   delete_task, written, removing>>
    /\ payload' = [payload EXCEPT ![t] = <<>>]
    /\ Goto(t, after_text(pc[t]))

\* handler.rs 135-148, 350-392: the download returns; when it is Ok the
\* caption is built and the cleanup guard is made before the send.
process_download(t) ==
    /\ pc[t] = "download"
    /\ UNCHANGED <<media_cache, cached, info, file_ids, delete_task, removing>>
    /\ \E d \in Downloads(downloader, Unwrap(info[t]), t, yt_dlp_runs) :
         LET r == d.result
         IN  /\ written' = [written EXCEPT ![t] = d.written]
             /\ payload' = [payload EXCEPT ![t] = d.error]
             /\ downloaded' = [downloaded EXCEPT ![t] = r.media]
             /\ cleanup_guard' = [cleanup_guard EXCEPT ![t] =
                    IF r.ok THEN Some(FileCleanupGuard_from_downloaded_media(Unwrap(r.media)))
                    ELSE Nothing]
             /\ GotoLogged(t, after_download(r), r.err)

\* handler.rs 177-193, 237-256, 394-399: the send returns.
process_send(t) ==
    /\ pc[t] \in {"send_single", "send_group"}
    /\ UNCHANGED <<media_cache, cached, info, downloaded, cleanup_guard, delete_task,
                   written, removing, payload>>
    /\ \E ok \in BOOLEAN, messages \in Replies(Unwrap(downloaded[t]).items) :
         /\ file_ids' = [file_ids EXCEPT ![t] =
                            IF ok THEN Some(sent_files(Unwrap(downloaded[t]), messages))
                            ELSE Nothing]
         /\ Goto(t, after_send(ok))

\* handler.rs 396-402: the store returns.
process_store(t) ==
    /\ pc[t] = "store"
    /\ UNCHANGED <<cached, info, downloaded, file_ids, cleanup_guard, delete_task,
                   written, removing, payload>>
    /\ \E db_ok \in BOOLEAN :
         /\ media_cache' = store_cached_media(media_cache, args[t].source_url,
                                              args[t].caption, args[t].files, db_ok)
         /\ GotoLogged(t, "log_success",
                       IF db_ok THEN None ELSE "Failed to store cache entry")

\* handler.rs 313-319, 337-347, 361-371, 400-407: every log_request is the
\* last call of its branch: process_download_request returns after it.
after_log_tells_user(p) ==
    IF p = "log_send_error" THEN "text_send_error" ELSE "clear_reaction"

after_log(p) == "clear_reaction"

\* Every log_request of the pipeline returns, whether or not its insert
\* failed (storage.rs 193-206): process_download_request returns, which drops
\* _cleanup_guard, and handle_url makes its last call.
process_log(t) ==
    /\ pc[t] \in LogPcs
    /\ delete_task' = [delete_task EXCEPT ![t] = FileCleanupGuard_drop(cleanup_guard[t])]
    /\ removing' = [removing EXCEPT ![t] = FileCleanupGuard_drop(cleanup_guard[t])]
    /\ cleanup_guard' = [cleanup_guard EXCEPT ![t] = Nothing]
    /\ UNCHANGED <<media_cache, cached, info, downloaded, file_ids, written, payload>>
    /\ \E db_ok \in BOOLEAN :
         GotoLogged(t, after_log(pc[t]), IF db_ok THEN None ELSE "Failed to log request")

\* handler.rs 50-57: the deletion task runs: it removes each of its paths in
\* turn; whether a remove_file fails or not is logged and the loop goes on.
remove_files(t) ==
    /\ removing[t] # <<>>
    /\ removing' = [removing EXCEPT ![t] = <<>>]
    /\ UNCHANGED <<processing_users, pc, chat, url, lock_guard, result, trace,
                   media_cache, cached, info, downloaded, file_ids, cleanup_guard,
                   delete_task, audit, args, written, logged, yt_dlp_runs, downloader,
                   payload>>
    /\ UNCHANGED <<store_vars, fn_vars>>

\* ---------------------------------------------------------- specification
PipelineInit ==
    /\ processing_users = {}
    /\ pc = [t \in Tasks |-> "idle"]
    /\ chat = [t \in Tasks |-> 1]
    /\ url = [t \in Tasks |-> CHOOSE u \in Urls : TRUE]
    /\ lock_guard = [t \in Tasks |-> FALSE]
    /\ result = [t \in Tasks |-> Nothing]
    /\ trace = [t \in Tasks |-> <<>>]
    /\ media_cache = [u \in CleanUrls |-> Nothing]
    /\ cached = [t \in Tasks |-> Nothing]
    /\ info = [t \in Tasks |-> Nothing]
    /\ downloaded = [t \in Tasks |-> Nothing]
    /\ file_ids = [t \in Tasks |-> Nothing]
    /\ cleanup_guard = [t \in Tasks |-> Nothing]
    /\ delete_task = [t \in Tasks |-> <<>>]
    /\ audit = [t \in Tasks |-> <<>>]
    /\ args = [t \in Tasks |-> Nothing]
    /\ written = [t \in Tasks |-> {}]
    /\ logged = [t \in Tasks |-> None]
    /\ removing = [t \in Tasks |-> <<>>]
    /\ payload = [t \in Tasks |-> <<>>]
    /\ tbl_media_cache = {}
    /\ tbl_cached_files = <<>>
    /\ next_id = 1
    /\ db_pc = [c \in Clients |-> "idle"]
    /\ db_call = [c \in Clients |-> Nothing]
    /\ db_local = [c \in Clients |-> [cache_id |-> 0, caption |-> <<>>, position |-> 0]]
    /\ db_ret = [c \in Clients |-> Nothing]
    /\ db_calls = [c \in Clients |-> 0]
    /\ last_store = [u \in CleanUrls |-> Nothing]
    /\ db_faulted = FALSE

\* No pure function is under test.
FnIdle == fn_op = "none" /\ fn_arg = Nothing /\ fn_ret = <<>>

Init ==
    /\ PipelineInit /\ yt_dlp_runs = YtDlpRuns /\ downloader = "YtDlpDownloader"
    /\ position_unique = FALSE /\ FnIdle

Next ==
    \E t \in Tasks :
        \/ handle_url_try_lock(t)
        \/ handle_url_busy_text(t)
        \/ handle_url_chat_action(t)
        \/ handle_url_reaction(t)
        \/ handle_url_clear_reaction(t)
        \/ process_cache_check(t)
        \/ process_replay(t)
        \/ process_metadata(t)
        \/ process_text(t)
        \/ process_download(t)
        \/ process_send(t)
        \/ process_store(t)
        \/ process_log(t)
        \/ remove_files(t)

Spec == Init /\ [][Next]_vars

\* One handler slot that handles its messages one after another, the
\* downloads drawing from all the runs: no message finds the chat busy.
RunInit ==
    /\ PipelineInit /\ yt_dlp_runs = MoreYtDlpRuns /\ downloader = "YtDlpDownloader"
    /\ position_unique = FALSE /\ FnIdle

RunNext ==
    \/ handle_url_try_lock(1)
    \/ handle_url_chat_action(1)
    \/ handle_url_reaction(1)
    \/ handle_url_clear_reaction(1)
    \/ process_cache_check(1)
    \/ process_replay(1)
    \/ process_metadata(1)
    \/ process_text(1)
    \/ process_download(1)
    \/ process_send(1)
    \/ process_store(1)
    \/ process_log(1)
    \/ remove_files(1)

RunSpec == RunInit /\ [][RunNext]_vars

\* The pipeline called with any implementation of Downloader (handler.rs
\* 298: downloader: &dyn Downloader): one handler slot, the downloads being
\* those of YtDlpDownloader and the other values the trait allows.
DynInit ==
    /\ PipelineInit /\ yt_dlp_runs = YtDlpRuns /\ downloader = "dyn Downloader"
    /\ position_unique = FALSE /\ FnIdle

DynSpec == DynInit /\ [][RunNext]_vars

\* The handler under the assumption that every awaited call returns: a task
\* that is suspended at a call takes its next step.  No assumption is made
\* on the arrival of messages or on the spawned deletion tasks.
LiveYtDlpRuns ==
    { MkRun("failed", None, None, FALSE),
      MkRun("ok", "mp4", "jpg", TRUE) }

LiveInit ==
    /\ PipelineInit /\ yt_dlp_runs = LiveYtDlpRuns /\ downloader = "YtDlpDownloader"
    /\ position_unique = FALSE /\ FnIdle

CallReturns(t) ==
    \/ handle_url_busy_text(t)
    \/ handle_url_chat_action(t)
    \/ handle_url_reaction(t)
    \/ handle_url_clear_reaction(t)
    \/ process_cache_check(t)
    \/ process_replay(t)
    \/ process_metadata(t)
    \/ process_text(t)
    \/ process_download(t)
    \/ process_send(t)
    \/ process_store(t)
    \/ process_log(t)

\* The messages are those of one chat, so that a message that arrives while
\* a handler runs is answered Busy.
LiveNext ==
    \E t \in Tasks :
        \/ handle_url_try_lock(t) /\ chat'[t] = 1
        \/ CallReturns(t)
        \/ remove_files(t)

LiveSpec == LiveInit /\ [][LiveNext]_vars /\ \A t \in Tasks : WF_vars(CallReturns(t))

\* ------------------------------------------- PostgresStorage, by statement
\* Every sqlx query of get_cached_media and store_cached_media is one
\* statement against the tables; a call is suspended at each of them, so the
\* calls of different runs interleave statement by statement, and every
\* statement either takes effect or fails.

\* INSERT ... ON CONFLICT (source_url) DO UPDATE SET caption ... RETURNING id:
\* one statement; the row of the url is updated when there is one, otherwise
\* a row with the next id is inserted.
upsert_insert_only(rows, id, source_url, caption) ==
    [rows |-> rows \cup {[id |-> id, source_url |-> source_url, caption |-> caption]},
     id |-> id, next |-> id + 1]

upsert(rows, id, source_url, caption) ==
    IF \E r \in rows : r.source_url = source_url
    THEN [rows |-> {IF r.source_url = source_url THEN [r EXCEPT !.caption = caption]
                    ELSE r : r \in rows},
          id |-> (CHOOSE r \in rows : r.source_url = source_url).id,
          next |-> id]
    ELSE [rows |-> rows \cup {[id |-> id, source_url |-> source_url, caption |-> caption]},
          id |-> id, next |-> id + 1]

\* DELETE FROM cached_files WHERE cache_id = $1
delete_files(rows, cache_id) == SelectSeq(rows, LAMBDA r : r.cache_id # cache_id)

\* INSERT INTO cached_files (cache_id, telegram_file_id, media_type, position)
insert_file(rows, cache_id, file, position) ==
    Append(rows, [cache_id |-> cache_id, telegram_file_id |-> file[1],
                  media_type |-> media_type_to_str(file[2]), position |-> position])

\* SELECT id, caption FROM media_cache WHERE source_url = $1 (fetch_optional)
select_row(rows, source_url) ==
    IF \E r \in rows : r.source_url = source_url
    THEN Some(CHOOSE r \in rows : r.source_url = source_url)
    ELSE Nothing

\* ORDER BY position: every order of the rows in which position never
\* decreases; rows of equal position come in any order.
RECURSIVE order_by_position(_)
order_by_position(rows) ==
    IF rows = <<>> THEN {<<>>}
    ELSE LET least == {k \in DOMAIN rows :
                          \A j \in DOMAIN rows : rows[k].position <= rows[j].position}
         IN  UNION {{<<rows[k]>> \o rest :
                        rest \in order_by_position(SubSeq(rows, 1, k - 1)
                                                   \o SubSeq(rows, k + 1, Len(rows)))} :
                    k \in least}

\* SELECT telegram_file_id, media_type FROM cached_files WHERE cache_id = $1
\* ORDER BY position: the results the statement can give.
select_files(rows, cache_id) ==
    order_by_position(SelectSeq(rows, LAMBDA r : r.cache_id = cache_id))

\* storage.rs 112-131: what the lookup returns for the file rows it read.
lookup_result_unchecked(caption, rows) ==
    Some([caption |-> caption, files |-> cached_files_of(rows)])

lookup_result(caption, rows) ==
    IF rows = <<>> THEN Nothing
    ELSE IF cached_files_of(rows) = <<>> THEN Nothing
    ELSE Some([caption |-> caption, files |-> cached_files_of(rows)])

\* The calls a run makes: the caption it built and the file ids of its
\* uploads are its own.
MkCall(op, source_url, caption, files) ==
    [op |-> op, source_url |-> source_url, caption |-> caption, files |-> files]

StorageCalls(c) ==
    {MkCall("lookup", u, EmptyCaption, <<>>) : u \in CleanUrls}
    \cup {MkCall("store", u, <<u, c>>, fs) : u \in CleanUrls,
            fs \in {<< <<FileId(FilePath(c, c, "mp4")), "Video">> >>,
                    << <<FileId(FilePath(c, c, "mp4")), "Video">>,
                       <<FileId(FilePath(c, c, "jpg")), "Photo">> >>}}

\* The insert of a file row violates the schema's unique constraint.
position_taken(rows, cache_id, position) ==
    \E k \in DOMAIN rows : rows[k].cache_id = cache_id /\ rows[k].position = position

NoLocals == [cache_id |-> 0, caption |-> EmptyCaption, position |-> 0]

\* A statement of the call of client c has run and the call goes on.
Advance(c, next_pc, locals) ==
    /\ db_pc' = [db_pc EXCEPT ![c] = next_pc]
    /\ db_local' = [db_local EXCEPT ![c] = locals]
    /\ UNCHANGED <<db_call, db_ret, db_calls, last_store, position_unique>>
    /\ UNCHANGED <<pipeline_vars, fn_vars>>

\* The entry a store is called with, as a lookup reports it.
entry_of(call) ==
    [caption |-> call.caption,
     files |-> [k \in 1..Len(call.files) |->
                   MkCachedFile(call.files[k][1], call.files[k][2])]]

\* The call of client c returns: a store returns (), a lookup returns res
\* and the run goes on as handler.rs 307-327 says.
Finish(c, upserted, res) ==
    LET call == Unwrap(db_call[c])
    IN  /\ db_pc' = [db_pc EXCEPT ![c] = "idle"]
        /\ db_call' = [db_call EXCEPT ![c] = Nothing]
        /\ db_ret' = [db_ret EXCEPT ![c] =
                         Some([call |-> call, upserted |-> upserted, result |-> res,
                               next |-> IF call.op = "store" THEN "log_success"
                                        ELSE after_cache_check(res)])]
        /\ last_store' = IF call.op = "store" /\ upserted
                         THEN [last_store EXCEPT ![call.source_url] = Some(entry_of(call))]
                         ELSE last_store
        /\ UNCHANGED <<db_calls, db_local, position_unique>>
        /\ UNCHANGED <<pipeline_vars, fn_vars>>

\* A run calls the store: handler.rs 307 (lookup) or 397-399 (store).
storage_call(c) ==
    /\ db_pc[c] = "idle"
    /\ db_calls[c] < MaxCalls
    /\ \E call \in StorageCalls(c) :
         /\ db_call' = [db_call EXCEPT ![c] = Some(call)]
         /\ db_pc' = [db_pc EXCEPT ![c] =
                         IF call.op = "store" THEN "upsert" ELSE "select_row"]
    /\ db_calls' = [db_calls EXCEPT ![c] = @ + 1]
    /\ db_local' = [db_local EXCEPT ![c] = NoLocals]
    /\ UNCHANGED <<tbl_media_cache, tbl_cached_files, next_id, db_ret, last_store,
                   db_faulted, position_unique>>
    /\ UNCHANGED <<pipeline_vars, fn_vars>>

\* storage.rs 140-156: the upsert; an error returns from the store.
store_upsert(c) ==
    /\ db_pc[c] = "upsert"
    /\ UNCHANGED tbl_cached_files
    /\ \E ok \in BOOLEAN :
         LET call == Unwrap(db_call[c])
             r == upsert(tbl_media_cache, next_id, call.source_url, call.caption)
         IN  /\ db_faulted' = (db_faulted \/ ~ok)
             /\ IF ok
                THEN /\ tbl_media_cache' = r.rows
                     /\ next_id' = r.next
                     /\ Advance(c, "delete_files", [NoLocals EXCEPT !.cache_id = r.id])
                ELSE /\ UNCHANGED <<tbl_media_cache, next_id>>
                     /\ Finish(c, FALSE, Nothing)

\* storage.rs 158-162: the files of the entry are deleted; `let _ =` ignores
\* the statement's error.  Then the loop over the files starts.
store_delete_files(c) ==
    /\ db_pc[c] = "delete_files"
    /\ UNCHANGED <<tbl_media_cache, next_id>>
    /\ \E ok \in BOOLEAN :
         /\ db_faulted' = (db_faulted \/ ~ok)
         /\ tbl_cached_files' =
               IF ok THEN delete_files(tbl_cached_files, db_local[c].cache_id)
               ELSE tbl_cached_files
         /\ IF Unwrap(db_call[c]).files = <<>>
            THEN Finish(c, TRUE, Nothing)
            ELSE Advance(c, "insert_file", db_local[c])

\* storage.rs 164-178: one turn of the loop; an error is logged and the
\* loop goes on with the next file.
store_insert_file(c) ==
    /\ db_pc[c] = "insert_file"
    /\ UNCHANGED <<tbl_media_cache, next_id>>
    /\ \E ok \in BOOLEAN :
         LET call == Unwrap(db_call[c])
             position == db_local[c].position
             conflict == position_unique
                         /\ position_taken(tbl_cached_files, db_local[c].cache_id, position)
         IN  /\ db_faulted' = (db_faulted \/ (~ok /\ ~conflict))
             /\ tbl_cached_files' =
                   IF ok /\ ~conflict
                   THEN insert_file(tbl_cached_files, db_local[c].cache_id,
                                    call.files[position + 1], position)
                   ELSE tbl_cached_files
             /\ IF position + 1 = Len(call.files)
                THEN Finish(c, TRUE, Nothing)
                ELSE Advance(c, "insert_file", [db_local[c] EXCEPT !.position = position + 1])

\* storage.rs 81-92: the row of the url is read; an error or no row is None.
lookup_select_row(c) ==
    /\ db_pc[c] = "select_row"
    /\ UNCHANGED <<tbl_media_cache, tbl_cached_files, next_id>>
    /\ \E ok \in BOOLEAN :
         LET row == select_row(tbl_media_cache, Unwrap(db_call[c]).source_url)
         IN  /\ db_faulted' = (db_faulted \/ ~ok)
             /\ IF ok /\ IsSome(row)
                THEN Advance(c, "touch", [NoLocals EXCEPT !.cache_id = Unwrap(row).id,
                                                          !.caption = Unwrap(row).caption])
                ELSE Finish(c, FALSE, Nothing)

\* storage.rs 94-98: last_used_at is set to NOW(); the error is ignored.
lookup_touch(c) ==
    /\ db_pc[c] = "touch"
    /\ UNCHANGED <<tbl_media_cache, tbl_cached_files, next_id>>
    /\ \E ok \in BOOLEAN :
         /\ db_faulted' = (db_faulted \/ ~ok)
         /\ Advance(c, "select_files", db_local[c])

\* storage.rs 100-131: the file rows are read in order of position.
lookup_select_files(c) ==
    /\ db_pc[c] = "select_files"
    /\ UNCHANGED <<tbl_media_cache, tbl_cached_files, next_id>>
    /\ \E ok \in BOOLEAN :
         /\ db_faulted' = (db_faulted \/ ~ok)
         /\ IF ok
            THEN \E rows \in select_files(tbl_cached_files, db_local[c].cache_id) :
                    Finish(c, FALSE, lookup_result(db_local[c].caption, rows))
            ELSE Finish(c, FALSE, Nothing)

StoreNext ==
    \E c \in Clients :
        \/ storage_call(c)
        \/ store_upsert(c)
        \/ store_delete_files(c)
        \/ store_insert_file(c)
        \/ lookup_select_row(c)
        \/ lookup_touch(c)
        \/ lookup_select_files(c)

\* The schema is not part of the sources: both are taken.
StoreInit ==
    /\ PipelineInit /\ yt_dlp_runs = YtDlpRuns /\ downloader = "YtDlpDownloader"
    /\ position_unique \in BOOLEAN /\ FnIdle

StoreSpec == StoreInit /\ [][StoreNext]_vars

\* ------------------------------------------------------- the pure functions
\* cleanup_url, build_caption and validate_media_metadata read nothing but
\* their arguments: each is applied to an input drawn from a bounded set.

\* The urls a message can hold: a video host and another host, with every
\* query text of up to MaxQueryLen characters (or none) and a fragment.
\* The hosts: youtube.com, a subdomain of it, a domain whose name ends like
\* it, the short domain and another site.
Hosts ==
    { <<"youtube.com">>, <<"www.", "youtube.com">>, <<"not", "youtube.com">>,
      <<"youtu.be">>, <<"example.com">> }
QueryChars == {"v", "=", "&", "%", "2", "5", "6"}
Queries ==
    {Nothing} \cup {Some(q) : q \in UNION {[1..n -> QueryChars] : n \in 0..MaxQueryLen}}
\* No query, an empty one, a video id, a video id behind and before another
\* parameter, and a query without a video id.
FewQueries ==
    { Nothing, Some(<<>>), Some(<<"v", "=", "6">>),
      Some(<<"5", "=", "2", "&", "v", "=", "6">>),
      Some(<<"v", "=", "6", "&", "5", "=", "2">>), Some(<<"5", "=", "2">>) }
UrlInputs ==
    {MkUrl(<<"youtube.com">>, "/watch", q, "frag") : q \in Queries}
    \cup {MkUrl(h, "/watch", q, f) : h \in Hosts, q \in FewQueries, f \in {None, "frag"}}

\* The captions: a source url of up to MaxUrlChars characters and a quote
\* that is empty, short, or longer than any caption.
UrlChars == 11..MaxUrlChars
QuoteChars == {0, 1, 5, 6, 100, 1000, 2000}

\* The descriptors: a playlist of up to MaxEntries entries whose first entry
\* is a video, an image or of no type, and a single item whose duration and
\* size are missing, under, at or over the limit.
EntryTypes == {"video", "image", None}
Playlists ==
    {MkInfo("p", Some([k \in 1..n |-> MkEntry("a", IF k = 1 THEN first ELSE rest)]),
            FALSE, d, Nothing) :
        n \in 0..MaxEntries, first \in EntryTypes, rest \in {"video", "image"},
        d \in {Nothing, Some(3000)}}
Durations ==
    {Nothing} \cup {Some(d) : d \in {0, 300, MAX_DURATION_SECONDS, MAX_DURATION_SECONDS + 1,
                                      650, 1800, 3000}}
Filesizes ==
    {Nothing} \cup {Some(b) : b \in {0, MAX_FILESIZE_BYTES - 1, MAX_FILESIZE_BYTES,
                                      MAX_FILESIZE_BYTES + 1, 2 * MAX_FILESIZE_BYTES}}
Singles ==
    {MkInfo("a", Nothing, thumb, d, b) : thumb \in BOOLEAN, d \in Durations, b \in Filesizes}

\* The metadata texts: of the markup characters and a letter, up to
\* MaxTextLen characters; the uploaders; the space that is left for the
\* quote: none, some that cuts a tag, an entity or the text, and enough.
TextChars == {"&", "<", ">", "a"}
Texts == UNION {[1..n -> TextChars] : n \in 0..MaxTextLen}
Uploaders == {Nothing, Some(<<>>), Some(<<"a">>), Some(<<"&">>), Some(<<"<", "a", ">">>)}
Spaces == {0, 2, 5, 9, 13, 1000}

\* The function under test is applied to its input (cleanup_url: a second
\* time to its own result, as a request for the canonical url does).
Apply(op, r) ==
    /\ fn_op = op
    /\ fn_ret' = Append(fn_ret, r)
    /\ UNCHANGED <<fn_op, fn_arg, pipeline_vars, store_vars>>

apply_cleanup_url ==
    /\ Len(fn_ret) < 2
    /\ Apply("cleanup_url",
             cleanup_url(IF fn_ret = <<>> THEN fn_arg ELSE fn_ret[Len(fn_ret)]))

apply_build_caption ==
    /\ fn_ret = <<>>
    /\ Apply("build_caption", build_caption_len(fn_arg.url_chars, fn_arg.quote_chars))

apply_validate_media_metadata ==
    /\ fn_ret = <<>>
    /\ Apply("validate_media_metadata", validate_media_metadata(fn_arg))

apply_final_quote ==
    /\ fn_ret = <<>>
    /\ Apply("final_quote", final_quote(fn_arg.uploader, fn_arg.description, fn_arg.space))

FnNext ==
    \/ apply_cleanup_url
    \/ apply_final_quote
    \/ apply_validate_media_metadata
    \/ apply_build_caption

FnInit ==
    /\ PipelineInit /\ yt_dlp_runs = YtDlpRuns /\ downloader = "YtDlpDownloader"
    /\ position_unique = FALSE
    /\ \/ fn_op = "cleanup_url" /\ fn_arg \in UrlInputs
       \/ /\ fn_op = "final_quote"
          /\ fn_arg \in [uploader : Uploaders,
                         description : {Nothing} \cup {Some(x) : x \in Texts},
                         space : Spaces]
       \/ fn_op = "validate_media_metadata" /\ fn_arg \in Playlists \cup Singles
       \/ fn_op = "build_caption" /\ fn_arg \in [url_chars : UrlChars, quote_chars : QuoteChars]
    /\ fn_ret = <<>>

FnSpec == FnInit /\ [][FnNext]_vars

\* ------------------------------------------------------------- properties
Count(s, x) == Cardinality({k \in DOMAIN s : s[k] = x})
Has(s, x) == \E k \in DOMAIN s : s[k] = x
IsPrefix(a, b) == Len(a) <= Len(b) /\ \A k \in DOMAIN a : a[k] = b[k]

Statuses == {"cached", "success", "error", "validation_error"}

\* The tasks that own a live LockGuard of chat c.
Guards(c) == {t \in Tasks : lock_guard[t] /\ chat[t] = c}

InPipeline(t) == pc[t] \in PipelinePcs
\* process_download_request has returned and handle_url has not yet.
Returned(t) == pc[t] = "clear_reaction"

\* The calls of the run from the metadata fetch on: the full (fresh) run.
FreshCalls(t) ==
    IF Has(trace[t], "get_media_metadata")
    THEN LET first == CHOOSE k \in DOMAIN trace[t] :
                         /\ trace[t][k] = "get_media_metadata"
                         /\ \A j \in 1..(k - 1) : trace[t][j] # "get_media_metadata"
         IN  SubSeq(trace[t], first, Len(trace[t]))
    ELSE <<>>

\* The stages in order, each run stopping at its first failing stage, with
\* the status it logs: Validate fails; Download fails (or the batch is
\* empty); Transmit fails; all of them succeed and CacheStore follows.
FreshRuns ==
    { [calls |-> <<"get_media_metadata", "send_text_message", "log_request">>,
       status |-> "validation_error"],
      [calls |-> <<"get_media_metadata", "download_media", "send_text_message",
                   "log_request">>,
       status |-> "error"] }
    \cup { [calls |-> <<"get_media_metadata", "download_media", send,
                        "send_text_message", "log_request">>,
            status |-> "error"] : send \in {"send_single_item", "send_media_group"} }
    \cup { [calls |-> <<"get_media_metadata", "download_media", send,
                        "store_cached_media", "log_request">>,
            status |-> "success"] : send \in {"send_single_item", "send_media_group"} }

\* The fresh calls of task t so far follow one of the runs, and whatever is
\* logged is that run's status.
FollowsFreshRun(t) ==
    \E r \in FreshRuns :
        LET calls == r.calls \o <<"set_message_reaction">>
        IN  /\ IsPrefix(FreshCalls(t), calls)
            /\ Len(FreshCalls(t)) >= Len(r.calls) => audit[t] = <<r.status>>
            /\ Len(FreshCalls(t)) < Len(r.calls) => audit[t] = <<>>

\* C1: for every chat at most one live LockGuard exists, whatever the
\* interleaving of try_lock calls and guard drops; a task answered None
\* (Busy) owns no guard and every other running handler owns one.
C1_AtMostOneGuardPerChat ==
    /\ \A c \in Chats : Cardinality(Guards(c)) <= 1
    /\ \A t \in Tasks :
         /\ pc[t] = "busy_text" => ~lock_guard[t]
         /\ pc[t] \notin {"idle", "busy_text"} => lock_guard[t]

\* C1 witness: two try_lock calls for one chat, neither handler returned:
\* one owns the guard, the other was answered Busy.
C1_Witness ==
    \E t1, t2 \in Tasks :
        /\ t1 # t2 /\ chat[t1] = chat[t2]
        /\ lock_guard[t1] /\ pc[t1] = "chat_action"
        /\ pc[t2] = "busy_text"

\* C2: no two executions of process_download_request of one chat overlap,
\* and the permit of the chat is held from before the pipeline starts (the
\* calls of handle_url before it) until after it has returned.
C2_NoOverlapPerChat ==
    /\ \A t1, t2 \in Tasks :
         t1 # t2 /\ InPipeline(t1) /\ InPipeline(t2) => chat[t1] # chat[t2]
    /\ \A t \in Tasks :
         pc[t] \in PipelinePcs \cup {"chat_action", "reaction", "clear_reaction"}
            => lock_guard[t] /\ chat[t] \in processing_users

\* C2 witness: a pipeline is suspended at its download while another message
\* of the same chat has arrived and is answered Busy.
C2_Witness ==
    \E t1, t2 \in Tasks :
        /\ t1 # t2 /\ chat[t1] = chat[t2]
        /\ pc[t1] = "download" /\ pc[t2] = "busy_text"

\* C3: a message for a chat whose permit is held is answered Busy at once:
\* the handler sends the "please wait" text and nothing else, never enters
\* the pipeline, returns after that one call, and the held set stays as it is.
C3_BusyAnswersAndLeaves ==
    [][\A t \in Tasks :
         /\ (pc[t] = "idle" /\ pc'[t] # "idle" /\ chat'[t] \in processing_users)
               => /\ pc'[t] = "busy_text"
                  /\ text_of(pc'[t], info'[t]).text = BusyText
                  /\ trace'[t] = <<"send_text_message">>
                  /\ ~lock_guard'[t]
                  /\ processing_users' = processing_users
         /\ (pc[t] = "busy_text" /\ pc'[t] # "busy_text")
               => /\ pc'[t] = "idle"
                  /\ processing_users' = processing_users]_vars

\* C3 witness: a handler answered Busy has returned while the holder of the
\* chat's permit still runs its pipeline.
C3_Witness ==
    \E t1, t2 \in Tasks :
        /\ t1 # t2 /\ chat[t1] = chat[t2]
        /\ pc[t1] = "idle" /\ result[t1] = Some(<<"Ok", FALSE>>)
        /\ InPipeline(t2) /\ lock_guard[t2]

\* C4: a chat is in the held set only while a handler that owns its guard is
\* running: every return of handle_url, normal or early, removes the chat.
C4_ReleasedOnEveryExit ==
    /\ \A c \in Chats :
         c \in processing_users
            => \E t \in Tasks : pc[t] # "idle" /\ lock_guard[t] /\ chat[t] = c
    /\ \A t \in Tasks : pc[t] = "idle" => ~lock_guard[t]

\* C4 witness: a handler that owned the guard returned early with an error
\* and a later try_lock for the same chat got the guard.
C4_Witness ==
    \E t1, t2 \in Tasks :
        /\ t1 # t2 /\ chat[t1] = chat[t2]
        /\ pc[t1] = "idle" /\ result[t1] = Some(<<"Err", TRUE>>)
        /\ lock_guard[t2] /\ pc[t2] = "reaction"

\* C5: a run never logs twice, and a run that has returned has logged
\* exactly one record, whose status is one of the four.
C5_OneAuditRecordPerRun ==
    \A t \in Tasks :
        /\ Len(audit[t]) <= 1
        /\ Count(trace[t], "log_request") = Len(audit[t])
        /\ \A k \in DOMAIN audit[t] : audit[t][k] \in Statuses
        /\ Returned(t) => Len(audit[t]) = 1

\* C5 witness: two runs have returned, one logged success, one logged error.
C5_Witness ==
    \E t1, t2 \in Tasks :
        /\ Returned(t1) /\ audit[t1] = <<"success">>
        /\ Returned(t2) /\ audit[t2] = <<"error">>

\* C6: a run that ends in a failure has sent exactly one text message and
\* logged exactly one record, also after a failed replay, and the pipeline
\* never makes handle_url return: it always hands back to it.
C6_OneTextOneRecordOnFailure ==
    /\ [](\A t \in Tasks :
            (Returned(t) /\ audit[t] \in {<<"error">>, <<"validation_error">>})
               => /\ Count(trace[t], "send_text_message") = 1
                  /\ Count(trace[t], "log_request") = 1)
    /\ [][\A t \in Tasks :
            (InPipeline(t) /\ pc'[t] # pc[t])
               => /\ pc'[t] \in PipelinePcs \cup {"clear_reaction"}
                  /\ result'[t] = result[t]]_vars

\* C6 witness: a run whose replay failed and whose fresh run failed too.
C6_Witness ==
    \E t \in Tasks :
        /\ Returned(t) /\ audit[t] = <<"error">>
        /\ Has(trace[t], "send_cached_media")
        /\ Has(trace[t], "send_text_message")

\* C7: a replay that succeeds is followed by the cached record alone: the
\* run makes no metadata fetch, no download, no fresh send and no store.
C7_ReplayOkEndsCached ==
    \A t \in Tasks :
        \A k \in DOMAIN trace[t] :
            (trace[t][k] = "send_cached_media" /\ k < Len(trace[t])
             /\ trace[t][k + 1] # "get_media_metadata")
               => /\ audit[t] = <<"cached">>
                  /\ IsPrefix(trace[t],
                        <<"send_chat_action", "set_message_reaction", "get_cached_media",
                          "send_cached_media", "log_request", "set_message_reaction">>)

\* C7 witness: a run served from the cache has returned.
C7_Witness ==
    \E t \in Tasks :
        /\ Returned(t) /\ audit[t] = <<"cached">>
        /\ IsSome(media_cache[cleanup_url(url[t])])

\* C8: a failed replay is not retried and not reported: the next call is the
\* metadata fetch, the run goes on through the stages of a full run in
\* order, and whatever it logs is that run's status, never cached.
C8_ReplayFailFallsThrough ==
    \A t \in Tasks :
        /\ Count(trace[t], "send_cached_media") <= 1
        /\ \A k \in DOMAIN trace[t] :
              (trace[t][k] = "send_cached_media" /\ k < Len(trace[t])
               /\ ~(trace[t][k + 1] = "log_request" /\ audit[t] = <<"cached">>))
                 => /\ IsPrefix(<<"send_chat_action", "set_message_reaction",
                                  "get_cached_media", "send_cached_media",
                                  "get_media_metadata">>, trace[t])
                    /\ FollowsFreshRun(t)
                    /\ ~Has(audit[t], "cached")

\* C8 witness: the replay failed and the fresh run stored and logged success.
C8_Witness ==
    \E t \in Tasks :
        /\ Returned(t) /\ audit[t] = <<"success">>
        /\ Has(trace[t], "send_cached_media")
        /\ Has(trace[t], "store_cached_media")

\* C9: a run for a url that has no cache entry does not replay, and a run
\* that does not replay visits the stages in order after the lookup, stops
\* at the first failing one, and logs success, error or validation_error.
C9_MissRunsStagesInOrder ==
    \A t \in Tasks :
        /\ (pc[t] # "idle" /\ ~IsSome(media_cache[cleanup_url(url[t])]))
              => ~Has(trace[t], "send_cached_media")
        /\ (Has(trace[t], "get_cached_media") /\ ~Has(trace[t], "send_cached_media"))
              => /\ IsPrefix(trace[t],
                       <<"send_chat_action", "set_message_reaction", "get_cached_media">>
                       \o FreshCalls(t))
                 /\ Len(trace[t]) > 3 => FollowsFreshRun(t)
                 /\ \A k \in DOMAIN audit[t] :
                       audit[t][k] \in {"success", "error", "validation_error"}

\* C9 witness: a run that missed the cache went through every stage.
C9_Witness ==
    \E t \in Tasks :
        /\ Returned(t) /\ audit[t] = <<"success">>
        /\ ~Has(trace[t], "send_cached_media")
        /\ FreshCalls(t) = <<"get_media_metadata", "download_media", "send_media_group",
                             "store_cached_media", "log_request", "set_message_reaction">>

\* The local paths of a DownloadedMedia: the file and the thumbnail of every item.
PathsOf(media) ==
    {media.items[k].filepath : k \in DOMAIN media.items}
    \cup {Unwrap(media.items[k].thumbnail_filepath) :
            k \in {j \in DOMAIN media.items : IsSome(media.items[j].thumbnail_filepath)}}

\* C10: when a run whose download returned a DownloadedMedia has returned,
\* every local path of the result was handed to the deletion task exactly
\* once, and nothing else was.
C10_EveryPathDeletedOnce ==
    \A t \in Tasks :
        (Returned(t) /\ IsSome(downloaded[t]))
           => /\ \A p \in PathsOf(Unwrap(downloaded[t])) : Count(delete_task[t], p) = 1
              /\ \A k \in DOMAIN delete_task[t] :
                    delete_task[t][k] \in PathsOf(Unwrap(downloaded[t]))

\* C11: when a run has returned, every file its download wrote to disk was
\* handed to the deletion task exactly once, also when the download reported
\* an error and also the files of entries the returned group leaves out.
C11_EveryWrittenFileDeletedOnce ==
    \A t \in Tasks :
        Returned(t) => \A p \in written[t] : Count(delete_task[t], p) = 1

\* A call of the run is followed directly by another one.
Follows(t, first, second) ==
    \E k \in DOMAIN trace[t] :
        k < Len(trace[t]) /\ trace[t][k] = first /\ trace[t][k + 1] = second

\* The send of the fresh run failed: the send is followed by the text.
SendFailed(t) ==
    \/ Follows(t, "send_single_item", "send_text_message")
    \/ Follows(t, "send_media_group", "send_text_message")

\* C12: when the send fails after a download that succeeded, the user gets
\* the "error while sending" text and no other, the run makes no store and
\* none of its steps changes the cache, it logs error, and every path of the
\* downloaded media is handed to the deletion task.
C12_SendFailureCleansUpAndStoresNothing ==
    /\ [](\A t \in Tasks :
            /\ pc[t] = "text_send_error"
                  => /\ args[t].text = SendErrorText
                     /\ IsSome(downloaded[t]) /\ ~IsSome(file_ids[t])
            /\ SendFailed(t)
                  => /\ ~Has(trace[t], "store_cached_media")
                     /\ Count(trace[t], "send_text_message") = 1
                     /\ audit[t] \in {<<>>, <<"error">>}
                     /\ Returned(t)
                           => /\ audit[t] = <<"error">>
                              /\ \A p \in PathsOf(Unwrap(downloaded[t])) :
                                    Has(delete_task[t], p))
    /\ [][\A t \in Tasks :
            (pc[t] \in {"send_single", "send_group", "text_send_error", "log_send_error"}
             /\ pc'[t] # pc[t])
               => media_cache' = media_cache]_vars

\* C12 witness: a run whose group send failed has returned with error and
\* its files handed to the deletion task, the url's cache entry still there.
C12_Witness ==
    \E t \in Tasks :
        /\ Returned(t) /\ audit[t] = <<"error">>
        /\ Follows(t, "send_media_group", "send_text_message")
        /\ Len(delete_task[t]) = 2
        /\ IsSome(media_cache[cleanup_url(url[t])])

\* The metadata fetch of the run has returned an error or a descriptor that
\* violates a rule.
ValidateFailed(t) ==
    /\ Len(FreshCalls(t)) >= 2
    /\ (IsSome(info[t]) => validate_media_metadata(Unwrap(info[t])).error # "Ok")

\* C13: when the metadata fetch fails or a rule is violated the run stops in
\* the validation: the one call after the fetch is the text ("could not
\* fetch" for a fetch error, the violated rule with what was found and the
\* limit otherwise), then the validation_error record; no download, no send
\* and no store is made.
C13_ValidateFailureStopsTheRun ==
    \A t \in Tasks :
        /\ pc[t] = "text_fetch_error"
              => ~IsSome(info[t]) /\ args[t].text = FetchErrorText
        /\ pc[t] = "text_validation"
              => /\ IsSome(info[t])
                 /\ args[t].text = validate_media_metadata(Unwrap(info[t]))
                 /\ args[t].text.error \in {"TooManyItems", "TooLong", "TooLarge"}
        /\ ValidateFailed(t)
              => /\ IsPrefix(FreshCalls(t),
                       <<"get_media_metadata", "send_text_message", "log_request",
                         "set_message_reaction">>)
                 /\ audit[t] \in {<<>>, <<"validation_error">>}
                 /\ Len(FreshCalls(t)) >= 3 => audit[t] = <<"validation_error">>
                 /\ ~IsSome(downloaded[t]) /\ written[t] = {}

\* C13 witness: one run has returned after a fetch error, another after a
\* descriptor that is too long.
C13_Witness ==
    \E t1, t2 \in Tasks :
        /\ Returned(t1) /\ ~IsSome(info[t1]) /\ audit[t1] = <<"validation_error">>
        /\ Has(trace[t1], "get_media_metadata")
        /\ Returned(t2) /\ IsSome(info[t2]) /\ audit[t2] = <<"validation_error">>
        /\ validate_media_metadata(Unwrap(info[t2])).error = "TooLong"

\* C14: a download error ends the run: the one call after the download is
\* the text, "taking too long" for a Timeout and the generic text for every
\* other error, then the error record; there is no send, no store and no
\* cleanup guard.
C14_DownloadErrorStopsTheRun ==
    \A t \in Tasks :
        /\ logged[t] = "Timeout"
              => pc[t] = "text_timeout" /\ args[t].text = TimeoutText
        /\ logged[t] \in {"CommandFailed", "ParsingFailed"}
              => pc[t] = "text_download_error" /\ args[t].text = DownloadErrorText
        /\ pc[t] \in {"text_timeout", "text_download_error"}
              => logged[t] \in {"Timeout", "CommandFailed", "ParsingFailed"}
        /\ Follows(t, "download_media", "send_text_message")
              => /\ IsPrefix(FreshCalls(t),
                       <<"get_media_metadata", "download_media", "send_text_message",
                         "log_request", "set_message_reaction">>)
                 /\ audit[t] \in {<<>>, <<"error">>}
                 /\ Has(trace[t], "log_request") => audit[t] = <<"error">>
                 /\ ~IsSome(downloaded[t]) /\ ~IsSome(file_ids[t])
                 /\ ~IsSome(cleanup_guard[t]) /\ delete_task[t] = <<>>

\* C14 witness: one run is about to tell the user of a timeout, another has
\* returned after a download error.
C14_Witness ==
    \E t1, t2 \in Tasks :
        /\ pc[t1] = "text_timeout" /\ logged[t1] = "Timeout"
        /\ Returned(t2) /\ audit[t2] = <<"error">>
        /\ Follows(t2, "download_media", "send_text_message")

\* The caption of the send of the fresh run: the caption of a single item,
\* the caption of the first element of a group.
SentCaption(t) ==
    IF pc[t] = "send_single" THEN args[t].caption ELSE args[t].media[1].caption

\* C15: a send that succeeded is followed by the store, called with the
\* canonical url, the caption that was sent and the sent records; whether
\* or not the store (or the audit insert) fails, the run then logs success
\* and hands back to handle_url, and a store that did not fail has written
\* exactly the entry it was called with.
C15_SendOkStoresThenSuccess ==
    /\ [](\A t \in Tasks :
            /\ IsSome(file_ids[t])
                  => /\ Has(trace[t], "store_cached_media")
                     /\ audit[t] \in {<<>>, <<"success">>}
                     /\ Returned(t) => audit[t] = <<"success">>
            /\ logged[t] = "Failed to store cache entry"
                  => pc[t] = "log_success" /\ audit[t] = <<"success">>)
    /\ [][\A t \in Tasks :
            /\ (pc[t] \in {"send_single", "send_group"} /\ pc'[t] # pc[t]
                 /\ IsSome(file_ids'[t]))
                   => /\ pc'[t] = "store"
                      /\ args'[t].source_url = cleanup_url(url[t])
                      /\ args'[t].source_url \in DOMAIN media_cache
                      /\ args'[t].caption = SentCaption(t)
                      /\ args'[t].files = Unwrap(file_ids'[t])
            /\ (pc[t] = "store" /\ pc'[t] # pc[t])
                   => /\ pc'[t] = "log_success"
                      /\ args'[t].status = "success"
                      /\ result'[t] = result[t]
                      /\ IF logged'[t] = None
                         THEN media_cache'[args[t].source_url] =
                                 Some([caption |-> args[t].caption,
                                       files |-> file_rows(args[t].files)])
                         ELSE media_cache' = media_cache
            /\ (pc[t] = "log_success" /\ pc'[t] # pc[t])
                   => pc'[t] = "clear_reaction" /\ result'[t] = result[t]]_vars

\* C15 witness: one run has stored and returned with success though its
\* audit insert failed, the store of another has just failed and the url
\* has no entry.
C15_Witness ==
    \E t1, t2 \in Tasks :
        /\ Returned(t1) /\ audit[t1] = <<"success">>
        /\ logged[t1] = "Failed to log request"
        /\ pc[t2] = "log_success" /\ logged[t2] = "Failed to store cache entry"

\* The clients that are inside a store of url u.
Storing(u) ==
    {c \in Clients : IsSome(db_call[c]) /\ Unwrap(db_call[c]).op = "store"
                     /\ Unwrap(db_call[c]).source_url = u}

\* The results a lookup of u has when it runs now and no statement fails.
Lookups(u) ==
    LET row == select_row(tbl_media_cache, u)
    IN  IF ~IsSome(row) THEN {Nothing}
        ELSE {lookup_result(Unwrap(row).caption, rows) :
                rows \in select_files(tbl_cached_files, Unwrap(row).id)}

\* The clients whose last call was a store of u that passed its upsert.
Writers(u) ==
    {c \in Clients : IsSome(db_ret[c]) /\ Unwrap(db_ret[c]).call.op = "store"
                     /\ Unwrap(db_ret[c]).call.source_url = u
                     /\ Unwrap(db_ret[c]).upserted}

\* C16: once a store of a url has returned and as long as no other store of
\* the url runs, a lookup of the url returns exactly the caption and exactly
\* the files of that store, in order (here: when no statement has failed).
C16_StoreReplacesEntry ==
    \A u \in CleanUrls :
        (Storing(u) = {} /\ IsSome(last_store[u]) /\ ~db_faulted)
           => Lookups(u) = {last_store[u]}

\* C17: whatever stores have run and however their statements interleave,
\* the table has at most one row per url and, once a store of the url has
\* passed its upsert, exactly one; no id is given twice.
C17_OneEntryPerUrl ==
    /\ \A u \in CleanUrls :
          LET entries == {r \in tbl_media_cache : r.source_url = u}
          IN  /\ Cardinality(entries) <= 1
              /\ (IsSome(last_store[u]) \/ \E c \in Storing(u) : db_pc[c] # "upsert")
                    => Cardinality(entries) = 1
    /\ \A r1, r2 \in tbl_media_cache : r1.id = r2.id => r1 = r2

\* C17 witness: two runs are inside a store of the same url, both past the
\* upsert, after an earlier store of the url has returned.
C17_Witness ==
    \E c1, c2 \in Clients, u \in CleanUrls :
        /\ c1 # c2 /\ Storing(u) = {c1, c2}
        /\ db_pc[c1] = "insert_file" /\ db_pc[c2] = "delete_files"
        /\ IsSome(last_store[u])
        /\ Cardinality({r \in tbl_media_cache : r.source_url = u}) = 1

\* C18: when two runs have stored the same url, once both stores have
\* returned the entry is the caption and the files of one of the two, never
\* a mixture of both (here: when no statement has failed).
C18_LastWriterWins ==
    \A u \in CleanUrls :
        (/\ Storing(u) = {} /\ ~db_faulted
         /\ Cardinality(Writers(u)) >= 2
         /\ \A c \in Clients : db_calls[c] > 0 => c \in Writers(u))
           => \E c \in Writers(u) :
                 Lookups(u) = {Some(entry_of(Unwrap(db_ret[c]).call))}

\* File rows as a lookup can read them, of known and of unknown media type.
SomeFileRows ==
    LET row(type) == [cache_id |-> 1, telegram_file_id |-> FileId(FilePath(1, 1, "mp4")),
                      media_type |-> type, position |-> 0]
    IN  {<<>>, <<row("animation")>>, <<row("animation"), row("video")>>,
         <<row("photo")>>}

\* C19: a lookup never returns an entry without files: an entry with no file
\* row, or with rows of unknown media type only, is a miss, and after a miss
\* the run goes on to the metadata fetch of the fresh run.
C19_NoEmptyEntry ==
    /\ \A c \in Clients :
          (IsSome(db_ret[c]) /\ Unwrap(db_ret[c]).call.op = "lookup")
             => LET ret == Unwrap(db_ret[c])
                IN  IF IsSome(ret.result)
                    THEN Len(Unwrap(ret.result).files) >= 1 /\ ret.next = "replay"
                    ELSE ret.next = "metadata"
    /\ \A u \in CleanUrls : \A r \in Lookups(u) : IsSome(r) => Unwrap(r).files # <<>>
    /\ \A rows \in SomeFileRows :
          LET r == lookup_result(EmptyCaption, rows)
          IN  IF \E k \in DOMAIN rows : str_to_media_type(rows[k].media_type) # None
              THEN IsSome(r) /\ Unwrap(r).files # <<>>
              ELSE r = Nothing

\* C19 witness: a lookup has found the row of the url and read its files
\* while a store had deleted them and not yet inserted the new ones: it
\* returned a miss, with no statement failed.
C19_Witness ==
    \E c1, c2 \in Clients :
        /\ c1 # c2 /\ ~db_faulted
        /\ IsSome(db_ret[c1]) /\ Unwrap(db_ret[c1]).call.op = "lookup"
        /\ db_pc[c1] = "idle" /\ db_local[c1].cache_id # 0
        /\ Unwrap(db_ret[c1]).result = Nothing /\ Unwrap(db_ret[c1]).next = "metadata"
        /\ db_pc[c2] = "insert_file" /\ db_local[c2].position = 0

\* C20: a lookup that failed is a miss: the run has no cached entry, has
\* sent the user nothing and its next call is the metadata fetch, as after
\* a lookup of a url that was never cached.
C20_FailedReadIsAMiss ==
    \A t \in Tasks :
        /\ logged[t] = "Cache lookup failed"
              => /\ pc[t] = "metadata" /\ ~IsSome(cached[t])
                 /\ trace[t] = <<"send_chat_action", "set_message_reaction",
                                 "get_cached_media", "get_media_metadata">>
                 /\ args[t] = [url |-> cleanup_url(url[t])]
                 /\ audit[t] = <<>>
        /\ (Len(trace[t]) > 3 /\ trace[t][3] = "get_cached_media")
              => trace[t][4] \in {"send_cached_media", "get_media_metadata"}

\* C20 witness: the lookup of a url that has an entry failed and the run is
\* at its metadata fetch.
C20_Witness ==
    \E t \in Tasks :
        /\ logged[t] = "Cache lookup failed" /\ pc[t] = "metadata"
        /\ IsSome(media_cache[cleanup_url(url[t])])

\* C21: canonicalizing a canonical url changes nothing: the second
\* application of cleanup_url returns what the first one returned, also for
\* a video url whose v value holds percent-encoded characters.
C21_CleanupUrlIdempotent ==
    (fn_op = "cleanup_url" /\ Len(fn_ret) = 2) => fn_ret[2] = fn_ret[1]

\* C22: the caption build_caption returns has at most 1024 characters,
\* whatever the descriptor and however long the source url in its header.
C22_CaptionWithinCeiling ==
    (fn_op = "build_caption" /\ fn_ret # <<>>) => fn_ret[1] <= 1024

\* The descriptor that was validated and the result.
Validated == fn_op = "validate_media_metadata" /\ fn_ret # <<>>
Rejected == fn_ret[1].error # "Ok"

\* C23: a descriptor with children is rejected exactly when it has more
\* children than the ceiling its first child chooses, 5 when that one is a
\* video and 10 otherwise (also when it has no type); the rejection names
\* the count and the ceiling.  6 videos are rejected, 6 photos are accepted,
\* 5 videos and 10 photos are accepted.
C23_PlaylistCeilingByFirstChild ==
    (Validated /\ IsSome(fn_arg.entries))
       => LET children == Unwrap(fn_arg.entries)
              n == Len(children)
              ceiling == IF n > 0 /\ children[1].media_type = "video" THEN 5 ELSE 10
          IN  /\ Rejected <=> n > ceiling
              /\ Rejected => fn_ret[1] = [error |-> "TooManyItems", found |-> n,
                                          limit |-> ceiling]
              /\ (n = 6 /\ children[1].media_type = "video") => Rejected
              /\ (n = 6 /\ children[1].media_type # "video") => ~Rejected

\* C23 witness: 6 children, the first a video and the others not, rejected
\* against the ceiling of 5.
C23_Witness ==
    /\ Validated /\ IsSome(fn_arg.entries)
    /\ Len(Unwrap(fn_arg.entries)) = 6
    /\ Unwrap(fn_arg.entries)[1].media_type = "video"
    /\ Unwrap(fn_arg.entries)[2].media_type = "image"
    /\ fn_ret[1] = [error |-> "TooManyItems", found |-> 6, limit |-> 5]

\* C24: a descriptor without children is rejected exactly when its duration
\* is there and over 600 s or its size is there and over 500 MB: a missing
\* value is no violation, a value at the ceiling is none, and a descriptor
\* with neither value is accepted.
C24_SingleItemCeilings ==
    (Validated /\ ~IsSome(fn_arg.entries))
       => LET too_long == fn_arg.duration # Nothing /\ fn_arg.duration[1] > 600
              too_large == fn_arg.filesize # Nothing
                           /\ fn_arg.filesize[1] > 500 * 1024 * 1024
          IN  /\ Rejected <=> (too_long \/ too_large)
              /\ Rejected => fn_ret[1].error \in {"TooLong", "TooLarge"}
              /\ (fn_arg.duration = Nothing /\ fn_arg.filesize = Nothing) => ~Rejected

\* C24 witness: a descriptor with no duration and a size over the ceiling
\* is rejected as too large.
C24_Witness ==
    /\ Validated /\ ~IsSome(fn_arg.entries)
    /\ fn_arg.duration = Nothing /\ fn_arg.filesize = Some(MAX_FILESIZE_BYTES + 1)
    /\ fn_ret[1] = [error |-> "TooLarge", found |-> 500, limit |-> 500]

\* The run has fetched the descriptor of a single item of 3000 s.
Is3000s(t) ==
    /\ IsSome(info[t]) /\ ~IsSome(Unwrap(info[t]).entries)
    /\ Unwrap(info[t]).duration = Some(3000)

\* C25 as stated: a single item of 3000 s is rejected against a ceiling of
\* 1800 s, the message names 50 minutes against a 30 minute limit, and no
\* download is made for it.
C25_RejectedAgainst1800 ==
    \A t \in Tasks :
        Is3000s(t)
           => /\ pc[t] = "text_validation"
                    => args[t].text = [error |-> "TooLong", found |-> 50, limit |-> 30]
              /\ ~Has(trace[t], "download_media")

\* C25 amended: a single item of 3000 s is rejected against the ceiling of
\* 600 s: the text sent after the fetch names 50 minutes against a 10
\* minute limit, and the run makes no download and writes no file.
C25_RejectedAgainst600 ==
    \A t \in Tasks :
        Is3000s(t)
           => /\ pc[t] \in {"text_validation", "log_validation_error", "clear_reaction"}
              /\ pc[t] = "text_validation"
                    => args[t].text = [error |-> "TooLong", found |-> 50, limit |-> 10]
              /\ Count(trace[t], "send_text_message") <= 1
              /\ ~Has(trace[t], "download_media")
              /\ ~IsSome(downloaded[t]) /\ written[t] = {}

\* C25 witness: the run of a single item of 3000 s has returned with a
\* validation_error record after its one text message.
C25_Witness ==
    \E t \in Tasks :
        /\ Is3000s(t) /\ Returned(t)
        /\ audit[t] = <<"validation_error">>
        /\ Count(trace[t], "send_text_message") = 1

\* C26: a group download is sent with one send_media_group call and no
\* single-item send: the batch has one element per downloaded item, in the
\* order of the download, each of the kind of its item's MediaType and
\* carrying its item's file; the first element carries the caption of the
\* run, which is not empty, every later element the empty caption.
C26_GroupSentAsOneBatch ==
    \A t \in Tasks :
        (IsSome(downloaded[t]) /\ Unwrap(downloaded[t]).kind = "Group"
           /\ pc[t] \notin {"download", "text_no_supported"})
            => LET items == Unwrap(downloaded[t]).items
                   caption == build_caption(Unwrap(info[t]), cleanup_url(url[t]))
               IN  /\ Count(trace[t], "send_media_group") = 1
                   /\ ~Has(trace[t], "send_single_item")
                   /\ caption # EmptyCaption
                   /\ pc[t] = "send_group"
                         => /\ DOMAIN args[t] = {"media"}
                            /\ Len(args[t].media) = Len(items)
                            /\ \A k \in 1..Len(items) :
                                  /\ args[t].media[k].kind = items[k].media_type
                                  /\ args[t].media[k].file = items[k].filepath
                                  /\ args[t].media[k].caption =
                                        IF k = 1 THEN caption ELSE EmptyCaption

\* C26 witness: the batch of a download of a video and a photo is being
\* sent, the caption on the video only.
C26_Witness ==
    \E t \in Tasks :
        /\ pc[t] = "send_group"
        /\ Len(args[t].media) = 2
        /\ args[t].media[1].kind = "Video" /\ args[t].media[2].kind = "Photo"
        /\ args[t].media[1].caption # EmptyCaption
        /\ args[t].media[2].caption = EmptyCaption

\* C27: a hit is replayed from what is stored: the entry the lookup hands to
\* the replay has the stored caption and the stored files, in their order;
\* an entry of one file is sent with send_cached_video when the file is a
\* Video and with send_cached_photo when it is a Photo, by its file id and
\* with the stored caption; an entry of several files is sent as one cached
\* group, each file by its file id and of its kind, in the stored order, the
\* stored caption on the first element and the empty caption on the others.
C27_ReplaySendsStoredEntry ==
    /\ [](\A t \in Tasks :
            pc[t] = "replay"
              => LET entry == Unwrap(cached[t])
                     n == Len(entry.files)
                 IN  /\ n >= 1
                     /\ trace[t][Len(trace[t])] = "send_cached_media"
                     /\ Count(trace[t], "send_cached_media") = 1
                     /\ IF n = 1
                        THEN /\ args[t].method =
                                  (IF entry.files[1].media_type = "Video"
                                   THEN "send_cached_video" ELSE "send_cached_photo")
                             /\ args[t].file_id = entry.files[1].telegram_file_id
                             /\ args[t].caption = entry.caption
                        ELSE /\ args[t].method = "send_cached_media_group"
                             /\ Len(args[t].media) = n
                             /\ \A k \in 1..n :
                                   /\ args[t].media[k].file_id =
                                         entry.files[k].telegram_file_id
                                   /\ args[t].media[k].kind = entry.files[k].media_type
                                   /\ args[t].media[k].caption =
                                         IF k = 1 THEN entry.caption ELSE EmptyCaption)
    /\ [][\A t \in Tasks :
            (pc[t] = "cache_check" /\ pc'[t] = "replay")
              => LET stored == Unwrap(media_cache[cleanup_url(url[t])])
                     entry == Unwrap(cached'[t])
                 IN  /\ entry.caption = stored.caption
                     /\ Len(entry.files) = Len(stored.files)
                     /\ \A k \in 1..Len(stored.files) :
                           /\ entry.files[k].telegram_file_id =
                                 stored.files[k].telegram_file_id
                           /\ media_type_to_str(entry.files[k].media_type) =
                                 stored.files[k].media_type]_vars

\* C27 witness: an entry of a video and a photo is being replayed as one
\* cached group, the stored caption on the video only.
C27_Witness ==
    \E t \in Tasks :
        /\ pc[t] = "replay"
        /\ Len(Unwrap(cached[t]).files) = 2
        /\ args[t].method = "send_cached_media_group"
        /\ args[t].media[1].kind = "Video" /\ args[t].media[2].kind = "Photo"
        /\ args[t].media[1].caption = Unwrap(cached[t]).caption
        /\ args[t].media[1].caption # EmptyCaption
        /\ args[t].media[2].caption = EmptyCaption

\* C28: the store of a fresh run is called with one record per item that
\* was sent, in the order of the send: the k-th record holds the file id
\* the chat API gave the k-th item, which is not empty, and the MediaType the
\* item was sent with; the list is never shorter than the items and never
\* empty.
C28_OneRecordPerSentItem ==
    \A t \in Tasks :
        pc[t] = "store"
          => LET items == Unwrap(downloaded[t]).items
                 files == args[t].files
             IN  /\ files # <<>>
                 /\ Len(files) = Len(items)
                 /\ \A k \in 1..Len(files) :
                       /\ files[k][1] # NoFileId
                       /\ files[k][1] = FileId(items[k].filepath)
                       /\ files[k][2] = items[k].media_type

\* C29: in a run whose download returned files, the cleanup guard is held
\* and no deletion task exists as long as the pipeline runs, the audit
\* record being appended meanwhile; the step that ends the pipeline drops
\* the guard, which spawns the deletion task for the paths of the guard,
\* while the chat is still in the limiter; the chat leaves the limiter only
\* when handle_url returns.  The return of log_request and the return of
\* handle_url are never held up by paths that are still to be removed.
C29_AuditThenDeletionThenPermit ==
    /\ [](\A t \in Tasks :
            IsSome(downloaded[t])
              => /\ pc[t] \in PipelinePcs
                      => /\ IsSome(cleanup_guard[t])
                         /\ delete_task[t] = <<>> /\ removing[t] = <<>>
                 /\ pc[t] \in LogPcs
                      => /\ Len(audit[t]) = 1
                         /\ ENABLED process_log(t)
                 /\ pc[t] = "clear_reaction"
                      => /\ Len(audit[t]) = 1
                         /\ ~IsSome(cleanup_guard[t])
                         /\ delete_task[t] # <<>>
                         /\ lock_guard[t] /\ chat[t] \in processing_users
                         /\ ENABLED handle_url_clear_reaction(t))
    /\ [][\A t \in Tasks :
            /\ (IsSome(downloaded[t]) /\ pc[t] \in LogPcs /\ pc'[t] # pc[t])
                  => /\ pc'[t] = "clear_reaction"
                     /\ audit'[t] = audit[t]
                     /\ delete_task'[t] = Unwrap(cleanup_guard[t])
                     /\ removing'[t] = delete_task'[t]
                     /\ lock_guard'[t] /\ chat[t] \in processing_users'
            /\ (IsSome(downloaded[t]) /\ pc[t] = "clear_reaction" /\ pc'[t] # pc[t])
                  => /\ ~lock_guard'[t] /\ chat[t] \notin processing_users'
                     /\ removing'[t] = removing[t]]_vars

\* C29 witness: handle_url has returned and the chat has left the limiter
\* while the paths of the run are still to be removed.
C29_Witness ==
    \E t \in Tasks :
        /\ pc[t] = "idle" /\ IsSome(result[t])
        /\ ~lock_guard[t] /\ chat[t] \notin processing_users
        /\ Len(removing[t]) = 2

\* C30: a single download is sent with one send_single_item call and no
\* group send: a Video with send_video, with the thumbnail file of the run
\* when yt-dlp wrote one and with no thumbnail when it wrote none, a Photo
\* with send_photo and no thumbnail; a send that succeeded gives exactly one
\* record, of the MediaType of the item.
C30_SingleSentByMediaType ==
    \A t \in Tasks :
        (IsSome(downloaded[t]) /\ Unwrap(downloaded[t]).kind = "Single"
           /\ pc[t] # "download")
            => LET item == Unwrap(downloaded[t]).items[1]
                   thumb == ThumbPath(t, Unwrap(info[t]).id)
               IN  /\ Len(Unwrap(downloaded[t]).items) = 1
                   /\ Count(trace[t], "send_single_item") = 1
                   /\ ~Has(trace[t], "send_media_group")
                   /\ pc[t] = "send_single"
                         => /\ args[t].file = item.filepath
                            /\ item.media_type = "Video"
                                  => /\ args[t].method = "send_video"
                                     /\ args[t].thumbnail =
                                           IF thumb \in written[t] THEN Some(thumb)
                                           ELSE Nothing
                            /\ item.media_type = "Photo"
                                  => /\ args[t].method = "send_photo"
                                     /\ args[t].thumbnail = Nothing
                   /\ IsSome(file_ids[t])
                         => /\ Len(Unwrap(file_ids[t])) = 1
                            /\ Unwrap(file_ids[t])[1][2] = item.media_type

\* C30 witness: a single video is being sent with the thumbnail file yt-dlp
\* wrote next to it.
C30_Witness ==
    \E t \in Tasks :
        /\ pc[t] = "send_single"
        /\ args[t].method = "send_video"
        /\ IsSome(args[t].thumbnail)
        /\ Unwrap(args[t].thumbnail) \in written[t]

\* The download of the run of t is a group whose batch is empty.
EmptyBatch(t) ==
    /\ IsSome(downloaded[t]) /\ pc[t] # "download"
    /\ Unwrap(downloaded[t]).kind = "Group"
    /\ media_group_of(Unwrap(downloaded[t]).items, EmptyCaption) = <<>>

\* C31: a group whose batch is empty is answered with the "no supported
\* type" text and nothing else: the run makes no send_media_group call and
\* no store call, it leaves the cache as it is, and it ends with the one
\* audit status error.
C31_EmptyBatchAborts ==
    /\ [](\A t \in Tasks :
            EmptyBatch(t)
              => /\ ~Has(trace[t], "send_media_group")
                 /\ ~Has(trace[t], "send_single_item")
                 /\ ~Has(trace[t], "store_cached_media")
                 /\ Count(trace[t], "send_text_message") = 1
                 /\ ~IsSome(file_ids[t])
                 /\ pc[t] \in {"text_no_supported", "log_send_error", "clear_reaction"}
                 /\ pc[t] = "text_no_supported"
                       => args[t] = [text |-> NoSupportedText] /\ audit[t] = <<>>
                 /\ pc[t] # "text_no_supported" => audit[t] = <<"error">>)
    /\ [][\A t \in Tasks :
            (EmptyBatch(t) /\ pc'[t] # pc[t]) => media_cache' = media_cache]_vars

\* C31 witness: the pipeline has returned from a group without items: one
\* text, no send, no store, audit status error.
C31_Witness ==
    \E t \in Tasks :
        /\ EmptyBatch(t) /\ Returned(t)
        /\ audit[t] = <<"error">>
        /\ Follows(t, "download_media", "send_text_message")

\* C32: every send_media_group call carries a batch of at least two
\* elements, and a download of exactly one item is never sent with
\* send_media_group.
C32_GroupSendHasTwoItems ==
    \A t \in Tasks :
        /\ pc[t] = "send_group" => Len(args[t].media) >= 2
        /\ (IsSome(downloaded[t]) /\ Len(Unwrap(downloaded[t]).items) = 1)
              => ~Has(trace[t], "send_media_group")

\* The hosts of the video-hosting family: youtube.com, its subdomains and
\* youtu.be.
VideoHost(h) ==
    \/ h \in {<<"youtube.com">>, <<"youtu.be">>}
    \/ Len(h) = 2 /\ h[2] = "youtube.com" /\ h[1] \in {"www.", "m.", "music."}

\* The urls that differ from u only in the fragment or in a tracking
\* parameter behind its query.
SameButFragmentOrTracking(u) ==
    {[u EXCEPT !.fragment = f] : f \in {None, "frag", "other"}}
    \cup {[u EXCEPT !.query = Some((IF IsSome(u.query) /\ Unwrap(u.query) # <<>>
                                    THEN Unwrap(u.query) \o <<"&">> ELSE <<>>)
                                   \o <<"s", "i", "=", "2">>)]}

\* C33: the canonical url has no fragment and the host and the path of the
\* url; for a host of the video-hosting family its query is the v parameter
\* of the url alone, with the value it has there, and no query when the url
\* has none; for every other host it has no query; urls that differ only
\* in the fragment or in a tracking parameter have the same canonical url.
C33_Canonicalization ==
    (fn_op = "cleanup_url" /\ Len(fn_ret) >= 1)
      => LET u == fn_arg
             r == fn_ret[1]
             v == find_v(query_pairs(u.query))
         IN  /\ r.fragment = None
             /\ r.host = u.host /\ r.path = u.path
             /\ IF VideoHost(u.host) /\ IsSome(v)
                THEN query_pairs(r.query) = << <<(<<"v">>), Unwrap(v)>> >>
                ELSE r.query = Nothing
             /\ \A w \in SameButFragmentOrTracking(u) : cleanup_url(w) = r

\* The words of a text the user is sent.
words(text) ==
    IF text = "Sorry, I could not fetch information for that link. It might require age verification, be private or unsupported."
    THEN <<"Sorry,", "I", "could", "not", "fetch", "information", "for", "that",
           "link.", "It", "might", "require", "age", "verification,", "be",
           "private", "or", "unsupported.">>
    ELSE IF text = "Sorry, I could not download the media. Please try again later."
    THEN <<"Sorry,", "I", "could", "not", "download", "the", "media.", "Please",
           "try", "again", "later.">>
    ELSE IF text = "yt-dlp command failed: ERROR: [youtube] x: Private video."
    THEN DownloadError_to_string("CommandFailed", Stderr)
    ELSE <<text>>

\* The words of sub stand in text one after another.
Contains(text, sub) ==
    \E k \in 1..(Len(text) - Len(sub) + 1) : SubSeq(text, k, k + Len(sub) - 1) = sub

\* The text the collaborator's error carries: its Display text without the
\* words the Display adds in front.
Upstream(e) ==
    IF e[1] = "Failed" THEN SubSeq(e, 6, Len(e))
    ELSE IF e[2] = "command" THEN SubSeq(e, 4, Len(e))
    ELSE e

\* C34: the text sent for a failed metadata fetch and the text sent for a
\* failed download are fixed texts, the same whatever the error the
\* collaborator returned: the text holds neither the error's Display text
\* nor the text the error carries, and neither "ERROR:" nor the name of the
\* tool.
C34_ErrorTextIsGeneric ==
    \A t \in Tasks :
        pc[t] \in {"text_fetch_error", "text_download_error"}
          => LET text == words(args[t].text)
             IN  /\ payload[t] # <<>>
                 /\ DOMAIN args[t] = {"text"}
                 /\ text = IF pc[t] = "text_fetch_error"
                           THEN <<"Sorry,", "I", "could", "not", "fetch", "information",
                                  "for", "that", "link.", "It", "might", "require", "age",
                                  "verification,", "be", "private", "or", "unsupported.">>
                           ELSE <<"Sorry,", "I", "could", "not", "download", "the",
                                  "media.", "Please", "try", "again", "later.">>
                 /\ ~Contains(text, payload[t])
                 /\ ~Contains(text, Upstream(payload[t]))
                 /\ \A k \in DOMAIN text : text[k] \notin {"ERROR:", "yt-dlp"}

\* C34 witness: a download has failed with a CommandFailed whose text is not
\* that of the other CommandFailed of the model, and the generic text is
\* being sent.
C34_Witness ==
    \E t \in Tasks :
        /\ pc[t] = "text_download_error"
        /\ payload[t] = <<"yt-dlp", "command", "failed:", "ERROR:", "Unsupported", "URL">>
        /\ args[t].text = DownloadErrorText

\* The entity of a character of a metadata text, the character itself when
\* it is no markup character.
Entity(c) ==
    IF c = "&" THEN <<"&", "a", "m", "p", ";">>
    ELSE IF c = "<" THEN <<"&", "l", "t", ";">>
    ELSE IF c = ">" THEN <<"&", "g", "t", ";">>
    ELSE <<c>>

\* The text with each of its characters as its entity.
RECURSIVE Escaped(_)
Escaped(s) == IF s = <<>> THEN <<>> ELSE Entity(Head(s)) \o Escaped(Tail(s))

\* The quote of a descriptor before it is cut: the uploader and the
\* description with each character as its entity, the uploader in <i></i>.
EscapedQuote(uploader, description) ==
    LET u == IF IsSome(uploader) /\ Unwrap(uploader) # <<>>
             THEN <<"<", "i", ">">> \o Escaped(Unwrap(uploader)) \o <<"<", "/", "i", ">">>
             ELSE <<>>
        d == IF IsSome(description) THEN Escaped(Unwrap(description)) ELSE <<>>
    IN  IF u # <<>> /\ d # <<>> THEN u \o <<"\n">> \o d ELSE u \o d

\* The positions of the quote that hold the <i> and </i> around the
\* uploader.
TagPositions(uploader) ==
    IF IsSome(uploader) /\ Unwrap(uploader) # <<>>
    THEN LET n == Len(Escaped(Unwrap(uploader))) IN (1..3) \cup ((n + 4)..(n + 7))
    ELSE {}

\* C35: in the quote of a caption every `&`, `<` and `>` of the uploader and
\* of the description stands as its entity, each once (the `&` of an entity
\* is not escaped again): the quote is the escaped texts, or, when it was
\* cut, their first characters and "[...]"; whether cut or not, no `<` and
\* no `>` stands in it but those of the <i> and </i> around the uploader.
C35_QuoteIsEscaped ==
    (fn_op = "final_quote" /\ Len(fn_ret) = 1)
      => LET quote == fn_ret[1]
             full == EscapedQuote(fn_arg.uploader, fn_arg.description)
             kept == IF Len(full) > fn_arg.space THEN fn_arg.space ELSE Len(full)
         IN  /\ SubSeq(quote, 1, kept) = SubSeq(full, 1, kept)
             /\ Len(full) <= fn_arg.space => quote = full
             /\ Len(full) > fn_arg.space
                   => SubSeq(quote, kept + 1, Len(quote)) = <<"[", ".", ".", ".", "]">>
             /\ \A k \in 1..kept :
                   quote[k] \in {"<", ">"} => k \in TagPositions(fn_arg.uploader)

\* C35 witness: an uploader and a description with markup characters were
\* escaped, and the quote was cut inside the first entity.
C35_Witness ==
    /\ fn_op = "final_quote" /\ Len(fn_ret) = 1
    /\ fn_arg.uploader = Some(<<"<", "a", ">">>)
    /\ fn_arg.description = Some(<<"&", "<", ">">>)
    /\ fn_arg.space = 5
    /\ fn_ret[1] = <<"<", "i", ">", "&", "l", "[", ".", ".", ".", "]">>

\* The calls of process_download_request that send to the chat, write the
\* cache or append an audit record.
RunEffects ==
    {"send_cached_media", "send_single_item", "send_media_group", "send_text_message",
     "store_cached_media", "log_request"}

\* C36: as long as process_download_request has not reached the log_request
\* of its exit, it has appended no audit record; and the log_request is its
\* last call: no send, no text, no store and no other log_request follows
\* it in the run (handle_url then clears the reaction and returns).
C36_AuditAppendIsLast ==
    \A t \in Tasks :
        /\ pc[t] \in PipelinePcs \ LogPcs
              => audit[t] = <<>> /\ ~Has(trace[t], "log_request")
        /\ Count(trace[t], "log_request") <= 1
        /\ Len(audit[t]) = Count(trace[t], "log_request")
        /\ \A k \in DOMAIN trace[t] :
              trace[t][k] = "log_request"
                => \A j \in (k + 1)..Len(trace[t]) :
                      /\ trace[t][j] \notin RunEffects
                      /\ trace[t][j] = "set_message_reaction"

\* C36 witness: a run that sent and stored has appended its record and has
\* returned; a reaction clearing is all that follows the log_request.
C36_Witness ==
    \E t \in Tasks :
        /\ Returned(t) /\ audit[t] = <<"success">>
        /\ Follows(t, "store_cached_media", "log_request")
        /\ Follows(t, "log_request", "set_message_reaction")

\* The entries the stores of url u write, each the caption and the whole
\* file list of one store call.
WrittenByOneStore(u) ==
    {entry_of(call) : call \in {k \in UNION {StorageCalls(c) : c \in Clients} :
                                   k.op = "store" /\ k.source_url = u}}

\* C37: a hit that a lookup returns is the caption and the complete file
\* list of one single store call of the url, also when the lookup ran while
\* a store of the url was running: never the caption of one store with the
\* files of another, never a strict subset of a store's files (here: when no
\* statement has failed).
C37_LookupSeesWholeEntry ==
    \A c \in Clients :
        (/\ IsSome(db_ret[c]) /\ Unwrap(db_ret[c]).call.op = "lookup"
         /\ IsSome(Unwrap(db_ret[c]).result) /\ ~db_faulted)
           => Unwrap(Unwrap(db_ret[c]).result)
                 \in WrittenByOneStore(Unwrap(db_ret[c]).call.source_url)

\* The files the call of a replay carries to the chat.
FilesOfReplay(call) ==
    IF call.method = "send_cached_media_group"
    THEN [k \in 1..Len(call.media) |-> call.media[k].file_id]
    ELSE <<call.file_id>>

\* C39: the cached record is appended only by the step at which a replay
\* returned Ok, and the call of that replay carried at least one file of
\* the entry to the chat: a run whose audit status is cached has made one
\* replay call and that call was not an empty batch.
C39_CachedMeansFileSent ==
    /\ [](\A t \in Tasks :
            Has(audit[t], "cached")
              => /\ audit[t] = <<"cached">>
                 /\ Count(trace[t], "send_cached_media") = 1
                 /\ \E k \in DOMAIN trace[t] :
                       /\ trace[t][k] = "send_cached_media"
                       /\ k < Len(trace[t]) /\ trace[t][k + 1] = "log_request")
    /\ [][\A t \in Tasks :
            (pc'[t] = "log_cached" /\ pc[t] # "log_cached")
              => /\ pc[t] = "replay"
                 /\ Len(Unwrap(cached[t]).files) >= 1
                 /\ Len(FilesOfReplay(args[t])) = Len(Unwrap(cached[t]).files)
                 /\ \A k \in DOMAIN FilesOfReplay(args[t]) :
                       FilesOfReplay(args[t])[k] =
                          Unwrap(cached[t]).files[k].telegram_file_id]_vars

\* C39 witness: a run has replayed an entry of two files and appended the
\* cached record.
C39_Witness ==
    \E t \in Tasks :
        /\ pc[t] = "log_cached" /\ audit[t] = <<"cached">>
        /\ IsSome(media_cache[cleanup_url(url[t])])
        /\ Len(Unwrap(media_cache[cleanup_url(url[t])]).files) = 2

C38_RunsEndAndPermitsReturn ==
    /\ \A t \in Tasks :
          (pc[t] = "cache_check") ~> (Returned(t) /\ Len(audit[t]) = 1)
    /\ \A t \in Tasks : lock_guard[t] ~> ~lock_guard[t]
    /\ \A c \in Chats : (c \in processing_users) ~> (c \notin processing_users)
    /\ \A t \in Tasks :
          (pc[t] = "busy_text") ~> (try_lock(processing_users, chat[t]).guard)

\* C38 witness: a message of a chat was answered Busy, the handler that
\* held the permit of the chat has run to its end and returned, and the
\* chat is free: the next try_lock for it gets the guard.
C38_Witness ==
    \E t1, t2 \in Tasks :
        /\ t1 # t2 /\ chat[t1] = chat[t2]
        /\ result[t1] = Some(<<"Ok", FALSE>>) /\ pc[t1] = "idle"
        /\ result[t2] = Some(<<"Ok", TRUE>>) /\ pc[t2] = "idle"
        /\ try_lock(processing_users, chat[t1]).guard
====
